---- MODULE Spec2Model ----
(***************************************************************************)
(* Warm-up orchestrator of the email-warmup backend                        *)
(* (backend/src/services/warmupOrchestrator.ts), together with the session *)
(* store (backend/src/db/sessionRepo.ts), the mail log and the IMAP        *)
(* subscriptions it drives, for one domain account on one calendar day.    *)
(*                                                                         *)
(* Every `await` of the source is one step: the step performs the awaited  *)
(* operation (a store query, an SMTP send, a text-generator call) and then *)
(* runs the continuation up to the next `await`.  The name of a program    *)
(* counter says which operation the task is waiting for.                   *)
(***************************************************************************)
EXTENDS Integers, Sequences, FiniteSets, TLC

\* Bounds of the model.
MaxLeads == 2         \* lead accounts that can exist
MaxCalls == 2         \* Spec: control calls (start / pause / stop) made over a run
MaxSends == 2         \* Spec: messages the SMTP servers accept; later sends fail
MaxTimeouts == 1      \* Spec, SpecSkip: wait-budget timers of subscriptions that fire
MaxSerialCalls == 2   \* SpecSerial: control calls made over a run
MaxSerialSends == 2   \* SpecSerial: messages the SMTP servers accept
MaxStartCalls == 2    \* SpecStart: start calls made over a run
MaxHappyCalls == 2    \* SpecHappy: start calls made over a run
MaxResumeCalls == 3   \* SpecResume: start and pause calls made over a run
MaxResumeSends == 3   \* SpecResume: messages sent over a run
MaxSkipCalls == 2     \* SpecSkip: start calls made over a run
MaxSkipSends == 2     \* SpecSkip: messages sent over a run
MaxStatusCalls == 3   \* SpecStatus: start and status calls made over a run
MaxShutdownCalls == 3 \* SpecShutdown: start calls made, and the termination signal
MaxShutdownSends == 2 \* SpecShutdown: messages sent over a run
MaxFaults == 6        \* SpecListener: failures of the IMAP connection over a run
MaxUnseen == 1        \* SpecListener: unseen messages of the expected sender
MaxAddrLen == 1        \* SpecMail: characters in the From text of another sender's message
MaxForeign == 1        \* SpecMail: unseen messages of other senders at a time
MaxMailCalls == 2      \* SpecMail: start calls made over a run
MaxMailSends == 2      \* SpecMail: messages sent over a run
MaxDelayMs == 3        \* SpecDelay: configured delays tried besides the shipped ones
RandDen == 8           \* SpecDelay: the random source takes the values k / RandDen

\* Independent request tasks of the control API that can be in flight together.
Callers == {1, 2}

VARIABLES
    domainExists,    \* domain_accounts holds the row of the domain account
    nLeads,          \* number of rows of lead_accounts (ordered by created_at)
    sessions,        \* warmup_sessions: sequence of rows, a row's id is its position
    domainStatus,    \* domain_accounts.status
    mailLog,         \* mail_logs, in insertion order
    inbox,           \* UNSEEN messages lying in the mailboxes
    nextMid,         \* source of fresh Message-IDs
    activeSessions,  \* the registry: 0, or the ActiveSession registered for the domain
    insts,           \* every ActiveSession object created so far
    timers,          \* pending setTimeout callbacks
    flows,           \* orchestrator steps and callbacks suspended at an await
    calls,           \* control calls, per caller
    callsLeft,       \* control calls the clients still make
    sendsLeft,       \* messages the SMTP servers still accept
    timeoutsLeft,    \* wait-budget timers that still fire
    maxInFlight,     \* control calls the clients keep in flight together
    listener,        \* one ImapListener object, studied on its own (SpecListener)
    draw             \* one call of randomDelay: its inputs and its result (SpecDelay)

vars == <<domainExists, nLeads, sessions, domainStatus, mailLog, inbox, nextMid,
          activeSessions, insts, timers, flows, calls, callsLeft, sendsLeft,
          timeoutsLeft, maxInFlight, listener, draw>>

----------------------------------------------------------------------------
\* Values

NullMid == <<"mid", 0>>
Mid(n) == <<"mid", n>>
DomainAddr == <<"domain", 0>>
LeadAddr(j) == <<"lead", j>>

\* error_message: the one stopWarmup passes, and the message of a thrown send error.
ErrManual == "Manually stopped by user"
ErrSend == "send failed"

NonTerminal == {"pending", "sending", "waiting_reply", "paused"}

NoListener == [st |-> "none", lead |-> 0]
Armed(j) == [st |-> "armed", lead |-> j]

\* A row as INSERT INTO warmup_sessions (..., 'pending', 0) leaves it.
NewRow ==
    [status |-> "pending", current_lead_index |-> 0, last_message_id |-> NullMid,
     error_message |-> "null", completed_at |-> "null"]

\* A control call: op, the await it is at, its result, its locals; n and peer
\* number the call and the call in flight when it began (kept for the properties).
IdleCall == [op |-> "none", pc |-> "idle", res |-> "none", a |-> 0, sid |-> 0,
             i |-> 0, leads |-> 0, n |-> 0, peer |-> 0]

\* No ImapListener under study, no draw made.
NoImap == [conn |-> "none"]
NoDraw == [min |-> 0, max |-> 0, r |-> 0, out |-> 0, called |-> "none"]

Flow(pc, a, i, lead, m, m2, e, o) ==
    [pc |-> pc, a |-> a, i |-> i, lead |-> lead, m |-> m, m2 |-> m2, e |-> e, o |-> o]

----------------------------------------------------------------------------
\* Session store (sessionRepo)

\* findActiveToday: the newest row whose status is neither completed nor failed; 0 = null.
FindActiveToday ==
    LET hit == {id \in 1..Len(sessions) : sessions[id].status \in NonTerminal}
    IN  IF hit = {} THEN 0 ELSE CHOOSE id \in hit : \A x \in hit : x <= id

\* findCompletedToday: a row with status completed; 0 = null.
FindCompletedToday ==
    LET hit == {id \in 1..Len(sessions) : sessions[id].status = "completed"}
    IN  IF hit = {} THEN 0 ELSE CHOOSE id \in hit : \A x \in hit : id <= x

\* create, first query: a row of the domain for today; 0 = none.
FindToday == IF Len(sessions) = 0 THEN 0 ELSE 1

\* updateStatus: sets status, and each of the extras that is present.
UpdateStatus(id, status, extras) ==
    [sessions EXCEPT ![id] =
        [f \in DOMAIN @ |->
            IF f = "status" THEN status
            ELSE IF f \in DOMAIN extras THEN extras[f] ELSE @[f]]]

NoExtras == [x \in {} |-> 0]

ResetRow_mutant(id) == [sessions EXCEPT ![id].status = "pending"]

\* create, the reset of today's row.
ResetRow(id) == [sessions EXCEPT ![id] = NewRow]

InsertViolatesUnique_mutant == FALSE

\* create, the insert; unique_active_session rejects a second row of the day.
InsertViolatesUnique == Len(sessions) > 0

LogEntry(sid, dir, li, from, to, mid, irt) ==
    [session_id |-> sid, direction |-> dir, lead_index |-> li, from_email |-> from,
     to_email |-> to, message_id |-> mid, in_reply_to |-> irt]

----------------------------------------------------------------------------
\* ActiveSession objects, their listeners and timers

NewActive(sid, idx, leads) ==
    [session |-> [id |-> sid, current_lead_index |-> idx], leads |-> leads,
     isPaused |-> FALSE, leadImapListener |-> NoListener,
     domainImapListener |-> NoListener]

\* Both listeners of a disconnected (ImapListener.disconnect sets isDestroyed).
DisconnectBoth(is, a) ==
    [is EXCEPT ![a].leadImapListener = NoListener,
               ![a].domainImapListener = NoListener]

TimersOf(a) == {t \in timers : t.a = a}

\* cleanupSession: on the registered object, if any: disconnect, clear timers, delete.
CleanupInsts(is) == IF activeSessions = 0 THEN is ELSE DisconnectBoth(is, activeSessions)
CleanupTimers(ts) == IF activeSessions = 0 THEN ts ELSE {t \in ts : t.a # activeSessions}

\* completeSession, up to its first await, with reg registered: the flows it leaves.
CompleteEntry(reg) ==
    IF reg = 0 THEN {}
    ELSE {Flow("c_upd", reg, 0, 0, NullMid, NullMid, "null", "none")}

\* failSession, up to its first await.
FailEntry(reg, msg) ==
    IF reg = 0 THEN {}
    ELSE {Flow("f_upd", reg, 0, 0, NullMid, NullMid, msg, "fail")}

\* processNextLead taking the lead after the one at the stored index.
ProcessEntry_mutant(reg, is, o) ==
    IF reg = 0 THEN {}
    ELSE IF is[reg].isPaused THEN {}
    ELSE IF is[reg].session.current_lead_index + 1 >= is[reg].leads
         THEN CompleteEntry(reg)
         ELSE {Flow("p_gen", reg, is[reg].session.current_lead_index + 1,
                    is[reg].session.current_lead_index + 1, NullMid, NullMid, "null", o)}

\* processNextLead, up to its first await, entered from o ("start" or "timer").
ProcessEntry(reg, is, o) ==
    IF reg = 0 THEN {}
    ELSE IF is[reg].isPaused THEN {}
    ELSE IF is[reg].session.current_lead_index >= is[reg].leads
         THEN CompleteEntry(reg)
         ELSE {Flow("p_gen", reg, is[reg].session.current_lead_index,
                    is[reg].session.current_lead_index, NullMid, NullMid, "null", o)}

----------------------------------------------------------------------------
\* The state after construction.  activeSessions is a module-level Map, empty when
\* the process boots; the tables are whatever an earlier run of the day left.

\* Today's row as an earlier run can have left it, with n leads in lead_accounts
\* (lead accounts can have been deleted since, so n can be 0).
BootRows(n) ==
    {[NewRow EXCEPT !.status = "sending", !.current_lead_index = i] : i \in 0..n}
    \cup {[NewRow EXCEPT !.status = "paused", !.current_lead_index = i] : i \in 0..n}
    \cup {[NewRow EXCEPT !.status = "waiting_reply", !.current_lead_index = i] :
              i \in 0..(n - 1)}
    \cup {[NewRow EXCEPT !.status = "completed", !.current_lead_index = i,
                         !.completed_at = "set"] : i \in 1..n}
    \cup {[NewRow EXCEPT !.status = "failed", !.current_lead_index = i,
                         !.error_message = e] :
              i \in 0..n, e \in {ErrManual, ErrSend}}
    \cup {NewRow}

\* domain_accounts.status as the run that left row r left it.
BootDomainStatus(r) ==
    IF r.status = "paused" THEN "paused"
    ELSE IF r.status \in {"completed", "failed"} THEN "idle"
    ELSE "running"

\* The process boots on tables holding no row of today, or one of rows.
Boot(rows) ==
    /\ domainExists \in BOOLEAN
    /\ nLeads \in 0..MaxLeads
    /\ sessions \in {<<>>} \cup
          {<<r>> : r \in {x \in BootRows(nLeads) : domainExists /\ x \in rows}}
    /\ domainStatus = IF sessions = <<>> THEN "idle" ELSE BootDomainStatus(sessions[1])
    /\ mailLog = <<>>
    /\ inbox = {}
    /\ nextMid = 1
    /\ activeSessions = 0
    /\ insts = <<>>
    /\ timers = {}
    /\ flows = {}
    /\ calls = [c \in Callers |-> IdleCall]
    /\ listener = NoImap
    /\ draw = NoDraw

\* A session paused before its first send.
PausedAtBoot == {[NewRow EXCEPT !.status = "paused"]}

Init ==
    /\ Boot(PausedAtBoot)
    /\ callsLeft = MaxCalls
    /\ sendsLeft = MaxSends
    /\ timeoutsLeft = MaxTimeouts
    /\ maxInFlight = Cardinality(Callers)

\* A lead account is created (lead_accounts grows at its end).  Only startWarmup
\* and the status route read the table (findAll), so the creations are taken
\* right before a read.
AddLead ==
    /\ nLeads < MaxLeads
    /\ \E c \in Callers : calls[c].pc \in {"findLeads", "statusFindLeads"}
    /\ nLeads' = nLeads + 1
    /\ UNCHANGED <<domainExists, sessions, domainStatus, mailLog, inbox,
                   nextMid, sendsLeft, activeSessions, insts, timers, flows,
                   calls, callsLeft, timeoutsLeft, maxInFlight, listener, draw>>

Free(c) == calls[c].pc \in {"idle", "done"}
\* A request takes the lowest caller that is not in flight.
CanCall(c) == /\ callsLeft > 0
              /\ Free(c)
              /\ \A d \in Callers : d < c => ~Free(d)
              /\ Cardinality({d \in Callers : ~Free(d)}) < maxInFlight

Done(op, res, sid, i) == [IdleCall EXCEPT !.op = op, !.pc = "done", !.res = res,
                                           !.sid = sid, !.i = i]

\* The record of a call that begins.
Stamp(c, r) ==
    [r EXCEPT !.n = callsLeft,
              !.peer = IF \E d \in Callers \ {c} : ~Free(d)
                       THEN calls[CHOOSE d \in Callers \ {c} : ~Free(d)].n
                       ELSE 0]

\* The record of call c when it returns or throws.
Return(c, res, sid, i) ==
    [Done(calls[c].op, res, sid, i) EXCEPT !.n = calls[c].n, !.peer = calls[c].peer]

----------------------------------------------------------------------------
\* startWarmup

\* The call, up to the first await (findById).
StartCall(c) ==
    /\ CanCall(c)
    /\ callsLeft' = callsLeft - 1
    /\ calls' = [calls EXCEPT ![c] =
                    IF activeSessions # 0
                    THEN Stamp(c, Done("start", "err_active", 0, 0))
                    ELSE Stamp(c, [IdleCall EXCEPT !.op = "start", !.pc = "findDomain"])]
    /\ UNCHANGED <<domainExists, nLeads, sessions, domainStatus, mailLog, inbox,
                   nextMid, sendsLeft, activeSessions, insts, timers, flows,
                   timeoutsLeft, maxInFlight, listener, draw>>

StartFindDomain(c) ==
    /\ calls[c].pc = "findDomain"
    /\ calls' = [calls EXCEPT ![c] =
                    IF ~domainExists THEN Return(c, "err_nodomain", 0, 0)
                    ELSE [@ EXCEPT !.pc = "findLeads"]]
    /\ UNCHANGED <<domainExists, nLeads, sessions, domainStatus, mailLog, inbox,
                   nextMid, sendsLeft, activeSessions, insts, timers, flows,
                   callsLeft, timeoutsLeft, maxInFlight, listener, draw>>

\* The check of the lead list without its rejection.
LeadsCheck_mutant(c, n) == [calls[c] EXCEPT !.pc = "findCompleted", !.leads = n]

\* The outcome of the check of the lead list.
LeadsCheck(c, n) ==
    IF n = 0 THEN Return(c, "err_noleads", 0, 0)
    ELSE [calls[c] EXCEPT !.pc = "findCompleted", !.leads = n]

StartFindLeads(c) ==
    /\ calls[c].pc = "findLeads"
    /\ calls' = [calls EXCEPT ![c] = LeadsCheck(c, nLeads)]
    /\ UNCHANGED <<domainExists, nLeads, sessions, domainStatus, mailLog, inbox,
                   nextMid, sendsLeft, activeSessions, insts, timers, flows,
                   callsLeft, timeoutsLeft, maxInFlight, listener, draw>>

\* The check for a session completed today, resuming also when no lead was added.
CompletedCheck_mutant(c, cid) ==
    IF cid = 0 THEN [calls[c] EXCEPT !.pc = "findActive"]
    ELSE IF sessions[cid].current_lead_index <= calls[c].leads
         THEN [calls[c] EXCEPT !.pc = "updCompleted", !.sid = cid,
                               !.i = sessions[cid].current_lead_index]
         ELSE Return(c, "err_completed", 0, 0)

\* The outcome of the check for a session completed today.
CompletedCheck(c, cid) ==
    IF cid = 0 THEN [calls[c] EXCEPT !.pc = "findActive"]
    ELSE IF sessions[cid].current_lead_index < calls[c].leads
         THEN [calls[c] EXCEPT !.pc = "updCompleted", !.sid = cid,
                               !.i = sessions[cid].current_lead_index]
         ELSE Return(c, "err_completed", 0, 0)

StartFindCompleted(c) ==
    /\ calls[c].pc = "findCompleted"
    /\ calls' = [calls EXCEPT ![c] = CompletedCheck(c, FindCompletedToday)]
    /\ UNCHANGED <<domainExists, nLeads, sessions, domainStatus, mailLog, inbox,
                   nextMid, sendsLeft, activeSessions, insts, timers, flows,
                   callsLeft, timeoutsLeft, maxInFlight, listener, draw>>

\* updateStatus(completedToday.id, 'sending', {index, completed_at: null, error: null})
StartUpdCompleted(c) ==
    /\ calls[c].pc = "updCompleted"
    /\ sessions' = UpdateStatus(calls[c].sid, "sending",
                      [current_lead_index |-> calls[c].i, completed_at |-> "null",
                       error_message |-> "null"])
    /\ calls' = [calls EXCEPT ![c].pc = "updDomain",
                              ![c].i = sessions'[calls[c].sid].current_lead_index]
    /\ UNCHANGED <<domainExists, nLeads, domainStatus, mailLog, inbox, nextMid,
                   sendsLeft, activeSessions, insts, timers, flows, callsLeft,
                   timeoutsLeft, maxInFlight, listener, draw>>

\* The check for a session active today, resuming every non-terminal row.
ActiveCheck_mutant(c, s) ==
    IF s # 0 THEN [calls[c] EXCEPT !.pc = "updResume", !.sid = s]
    ELSE [calls[c] EXCEPT !.pc = "createSelect"]

\* The outcome of the check for a session active today.
ActiveCheck(c, s) ==
    IF s # 0 /\ sessions[s].status = "paused"
    THEN [calls[c] EXCEPT !.pc = "updResume", !.sid = s]
    ELSE IF s = 0 THEN [calls[c] EXCEPT !.pc = "createSelect"]
    ELSE Return(c, "err_exists", 0, 0)

StartFindActive(c) ==
    /\ calls[c].pc = "findActive"
    /\ calls' = [calls EXCEPT ![c] = ActiveCheck(c, FindActiveToday)]
    /\ UNCHANGED <<domainExists, nLeads, sessions, domainStatus, mailLog, inbox,
                   nextMid, sendsLeft, activeSessions, insts, timers, flows,
                   callsLeft, timeoutsLeft, maxInFlight, listener, draw>>

\* updateStatus(session.id, 'sending') of the paused row
StartUpdResume(c) ==
    /\ calls[c].pc = "updResume"
    /\ sessions' = UpdateStatus(calls[c].sid, "sending", NoExtras)
    /\ calls' = [calls EXCEPT ![c].pc = "updDomain",
                              ![c].i = sessions'[calls[c].sid].current_lead_index]
    /\ UNCHANGED <<domainExists, nLeads, domainStatus, mailLog, inbox, nextMid,
                   sendsLeft, activeSessions, insts, timers, flows, callsLeft,
                   timeoutsLeft, maxInFlight, listener, draw>>

\* sessionRepo.create, the SELECT
StartCreateSelect(c) ==
    /\ calls[c].pc = "createSelect"
    /\ calls' = [calls EXCEPT ![c] =
                    IF FindToday # 0 THEN [@ EXCEPT !.pc = "createReset", !.sid = FindToday]
                    ELSE [@ EXCEPT !.pc = "createInsert"]]
    /\ UNCHANGED <<domainExists, nLeads, sessions, domainStatus, mailLog, inbox,
                   nextMid, sendsLeft, activeSessions, insts, timers, flows,
                   callsLeft, timeoutsLeft, maxInFlight, listener, draw>>

\* sessionRepo.create, the UPDATE that resets today's row
StartCreateReset(c) ==
    /\ calls[c].pc = "createReset"
    /\ sessions' = ResetRow(calls[c].sid)
    /\ calls' = [calls EXCEPT ![c].pc = "updDomain", ![c].i = 0]
    /\ UNCHANGED <<domainExists, nLeads, domainStatus, mailLog, inbox, nextMid,
                   sendsLeft, activeSessions, insts, timers, flows, callsLeft,
                   timeoutsLeft, maxInFlight, listener, draw>>

\* sessionRepo.create, the INSERT; a violation of unique_active_session is thrown
StartCreateInsert(c) ==
    /\ calls[c].pc = "createInsert"
    /\ IF InsertViolatesUnique
       THEN /\ calls' = [calls EXCEPT ![c] = Return(c, "err_db", 0, 0)]
            /\ UNCHANGED sessions
       ELSE /\ sessions' = Append(sessions, NewRow)
            /\ calls' = [calls EXCEPT ![c].pc = "updDomain",
                                      ![c].sid = Len(sessions) + 1, ![c].i = 0]
    /\ UNCHANGED <<domainExists, nLeads, domainStatus, mailLog, inbox, nextMid,
                   sendsLeft, activeSessions, insts, timers, flows, callsLeft,
                   timeoutsLeft, maxInFlight, listener, draw>>

\* domainAccountRepo.updateStatus(running); then the object is registered, the
\* flow is launched (processNextLead up to its first await) and the row returned.
StartUpdDomain(c) ==
    /\ calls[c].pc = "updDomain"
    /\ domainStatus' = "running"
    /\ insts' = Append(insts, NewActive(calls[c].sid, calls[c].i, calls[c].leads))
    /\ activeSessions' = Len(insts) + 1
    /\ flows' = flows \cup ProcessEntry(activeSessions', insts', "start")
    /\ calls' = [calls EXCEPT ![c] = Return(c, "ok", calls[c].sid, calls[c].i)]
    /\ UNCHANGED <<domainExists, nLeads, sessions, mailLog, inbox, nextMid,
                   sendsLeft, timers, callsLeft, timeoutsLeft, maxInFlight, listener, draw>>

----------------------------------------------------------------------------
\* pauseWarmup

\* The call, up to the first await: flag, listeners, timers.  (i keeps the index
\* the row holds at the call, for the properties; the code has no such local.)
PauseCall(c) ==
    /\ CanCall(c)
    /\ callsLeft' = callsLeft - 1
    /\ IF activeSessions = 0
       THEN /\ calls' = [calls EXCEPT ![c] = Stamp(c, Done("pause", "err_noactive", 0, 0))]
            /\ UNCHANGED <<insts, timers>>
       ELSE /\ insts' = [DisconnectBoth(insts, activeSessions)
                            EXCEPT ![activeSessions].isPaused = TRUE]
            /\ timers' = timers \ TimersOf(activeSessions)
            /\ calls' = [calls EXCEPT ![c] = Stamp(c,
                  [IdleCall EXCEPT !.op = "pause", !.pc = "pauseUpd",
                      !.a = activeSessions,
                      !.sid = insts[activeSessions].session.id,
                      !.i = sessions[insts[activeSessions].session.id].current_lead_index])]
    /\ UNCHANGED <<domainExists, nLeads, sessions, domainStatus, mailLog, inbox,
                   nextMid, sendsLeft, activeSessions, flows, timeoutsLeft,
                   maxInFlight, listener, draw>>

\* The status pause writes to the session row.
PauseStatus == "paused"

\* updateStatus(active.session.id, 'paused')
PauseUpd(c) ==
    /\ calls[c].pc = "pauseUpd"
    /\ sessions' = UpdateStatus(calls[c].sid, PauseStatus, NoExtras)
    /\ calls' = [calls EXCEPT ![c].pc = "pauseDom"]
    /\ UNCHANGED <<domainExists, nLeads, domainStatus, mailLog, inbox, nextMid,
                   sendsLeft, activeSessions, insts, timers, flows, callsLeft,
                   timeoutsLeft, maxInFlight, listener, draw>>

\* domainAccountRepo.updateStatus(paused); activeSessions.delete; return
PauseDom(c) ==
    /\ calls[c].pc = "pauseDom"
    /\ domainStatus' = "paused"
    /\ activeSessions' = 0
    /\ calls' = [calls EXCEPT ![c] = Return(c, "ok", calls[c].sid, calls[c].i)]
    /\ UNCHANGED <<domainExists, nLeads, sessions, mailLog, inbox, nextMid,
                   sendsLeft, insts, timers, flows, callsLeft, timeoutsLeft,
                   maxInFlight, listener, draw>>

----------------------------------------------------------------------------
\* shutdownAll (called by gracefulShutdown of server.ts on SIGTERM / SIGINT)

\* The termination signal arrives: shutdownAll enters pauseWarmup for the
\* registered orchestrator, which runs up to its first await; with an empty
\* registry it clears the registry and returns.  When pauseWarmup returns
\* (PauseDom) the loop ends, the registry is cleared and shutdownAll returns.
\* gracefulShutdown has closed the HTTP server: no further request is accepted.
ShutdownCall(c) ==
    /\ CanCall(c)
    /\ callsLeft' = 0
    /\ IF activeSessions = 0
       THEN /\ calls' = [calls EXCEPT ![c] = Stamp(c, Done("shutdown", "ok", 0, 0))]
            /\ UNCHANGED <<insts, timers>>
       ELSE /\ insts' = [DisconnectBoth(insts, activeSessions)
                            EXCEPT ![activeSessions].isPaused = TRUE]
            /\ timers' = timers \ TimersOf(activeSessions)
            /\ calls' = [calls EXCEPT ![c] = Stamp(c,
                  [IdleCall EXCEPT !.op = "shutdown", !.pc = "pauseUpd",
                      !.a = activeSessions,
                      !.sid = insts[activeSessions].session.id,
                      !.i = sessions[insts[activeSessions].session.id].current_lead_index])]
    /\ UNCHANGED <<domainExists, nLeads, sessions, domainStatus, mailLog, inbox,
                   nextMid, sendsLeft, activeSessions, flows, timeoutsLeft,
                   maxInFlight, listener, draw>>

----------------------------------------------------------------------------
\* stopWarmup

\* The call: without a registered object it looks for today's row, with one it
\* enters failSession.
StopCall(c) ==
    /\ CanCall(c)
    /\ callsLeft' = callsLeft - 1
    /\ calls' = [calls EXCEPT ![c] =
          IF activeSessions = 0
          THEN Stamp(c, [IdleCall EXCEPT !.op = "stop", !.pc = "stopFind"])
          ELSE Stamp(c, [IdleCall EXCEPT !.op = "stop", !.pc = "stopFailUpd",
                   !.a = activeSessions, !.sid = insts[activeSessions].session.id])]
    /\ UNCHANGED <<domainExists, nLeads, sessions, domainStatus, mailLog, inbox,
                   nextMid, sendsLeft, activeSessions, insts, timers, flows,
                   timeoutsLeft, maxInFlight, listener, draw>>

StopFind(c) ==
    /\ calls[c].pc = "stopFind"
    /\ calls' = [calls EXCEPT ![c] =
          IF FindActiveToday = 0 THEN Return(c, "ok", 0, 0)
          ELSE [@ EXCEPT !.pc = "stopUpd", !.sid = FindActiveToday]]
    /\ UNCHANGED <<domainExists, nLeads, sessions, domainStatus, mailLog, inbox,
                   nextMid, sendsLeft, activeSessions, insts, timers, flows,
                   callsLeft, timeoutsLeft, maxInFlight, listener, draw>>

StopUpd(c) ==
    /\ calls[c].pc = "stopUpd"
    /\ sessions' = UpdateStatus(calls[c].sid, "failed", [error_message |-> ErrManual])
    /\ calls' = [calls EXCEPT ![c].pc = "stopDom"]
    /\ UNCHANGED <<domainExists, nLeads, domainStatus, mailLog, inbox, nextMid,
                   sendsLeft, activeSessions, insts, timers, flows, callsLeft,
                   timeoutsLeft, maxInFlight, listener, draw>>

StopDom(c) ==
    /\ calls[c].pc = "stopDom"
    /\ domainStatus' = "idle"
    /\ calls' = [calls EXCEPT ![c] = Return(c, "ok", calls[c].sid, 0)]
    /\ UNCHANGED <<domainExists, nLeads, sessions, mailLog, inbox, nextMid,
                   sendsLeft, activeSessions, insts, timers, flows, callsLeft,
                   timeoutsLeft, maxInFlight, listener, draw>>

\* failSession called by stop: updateStatus(active.session.id, 'failed', {error})
StopFailUpd(c) ==
    /\ calls[c].pc = "stopFailUpd"
    /\ sessions' = UpdateStatus(calls[c].sid, "failed", [error_message |-> ErrManual])
    /\ calls' = [calls EXCEPT ![c].pc = "stopFailDom"]
    /\ UNCHANGED <<domainExists, nLeads, domainStatus, mailLog, inbox, nextMid,
                   sendsLeft, activeSessions, insts, timers, flows, callsLeft,
                   timeoutsLeft, maxInFlight, listener, draw>>

\* failSession called by stop: domain idle, cleanupSession; stop returns
StopFailDom(c) ==
    /\ calls[c].pc = "stopFailDom"
    /\ domainStatus' = "idle"
    /\ insts' = CleanupInsts(insts)
    /\ timers' = CleanupTimers(timers)
    /\ activeSessions' = 0
    /\ calls' = [calls EXCEPT ![c] = Return(c, "ok", calls[c].sid, 0)]
    /\ UNCHANGED <<domainExists, nLeads, sessions, mailLog, inbox, nextMid,
                   sendsLeft, flows, callsLeft, timeoutsLeft, maxInFlight, listener, draw>>

----------------------------------------------------------------------------
\* GET /status/:domainAccountId (routes/warmup.ts)

\* The request, up to the first await: getActiveSessionStatus, then findActiveToday.
StatusCall(c) ==
    /\ CanCall(c)
    /\ callsLeft' = callsLeft - 1
    /\ calls' = [calls EXCEPT ![c] =
                    Stamp(c, [IdleCall EXCEPT !.op = "status", !.pc = "statusFindActive",
                                              !.a = activeSessions])]
    /\ UNCHANGED <<domainExists, nLeads, sessions, domainStatus, mailLog, inbox,
                   nextMid, sendsLeft, activeSessions, insts, timers, flows,
                   timeoutsLeft, maxInFlight, listener, draw>>

\* findActiveToday returns (dbSession); findCompletedToday is called.
StatusFindActive(c) ==
    /\ calls[c].pc = "statusFindActive"
    /\ calls' = [calls EXCEPT ![c].pc = "statusFindCompleted"]
    /\ UNCHANGED <<domainExists, nLeads, sessions, domainStatus, mailLog, inbox,
                   nextMid, sendsLeft, activeSessions, insts, timers, flows,
                   callsLeft, timeoutsLeft, maxInFlight, listener, draw>>

CompletedToday_mutant(index, n) == index > n

\* completedToday of a completed row holding index, with n leads in the table.
CompletedToday(index, n) == ~(index < n)

\* The answer of the route: completedToday.
StatusAnswer(b) == IF b THEN "true" ELSE "false"

\* findCompletedToday returns: without a completed row the answer is sent,
\* with one leadAccountRepo.findAll is called.
StatusFindCompleted(c) ==
    /\ calls[c].pc = "statusFindCompleted"
    /\ calls' = [calls EXCEPT ![c] =
          IF FindCompletedToday = 0 THEN Return(c, StatusAnswer(FALSE), 0, 0)
          ELSE [@ EXCEPT !.pc = "statusFindLeads", !.sid = FindCompletedToday,
                         !.i = sessions[FindCompletedToday].current_lead_index]]
    /\ UNCHANGED <<domainExists, nLeads, sessions, domainStatus, mailLog, inbox,
                   nextMid, sendsLeft, activeSessions, insts, timers, flows,
                   callsLeft, timeoutsLeft, maxInFlight, listener, draw>>

\* findAll returns; the answer is sent.
StatusFindLeads(c) ==
    /\ calls[c].pc = "statusFindLeads"
    /\ calls' = [calls EXCEPT ![c] =
          Return(c, StatusAnswer(CompletedToday(calls[c].i, nLeads)),
                 calls[c].sid, calls[c].i)]
    /\ UNCHANGED <<domainExists, nLeads, sessions, domainStatus, mailLog, inbox,
                   nextMid, sendsLeft, activeSessions, insts, timers, flows,
                   callsLeft, timeoutsLeft, maxInFlight, listener, draw>>

----------------------------------------------------------------------------
\* processNextLead

Msg(to, from, mid, irt) == [to |-> to, from |-> from, mid |-> mid, irt |-> irt]

Sid(a) == insts[a].session.id

\* An error thrown by processNextLead that no caller handles.
ProcessThrows_mutant(f) == {}

\* What an error thrown by processNextLead leaves: its caller (the .catch of
\* startWarmup for o = "start", the try/catch of the delay timer for o = "timer")
\* calls failSession.
ProcessThrows(f) == {[g EXCEPT !.o = f.o] : g \in FailEntry(activeSessions, ErrSend)}

\* generateOutboundEmail returns
PGenOk(f) ==
    /\ f.pc = "p_gen"
    /\ flows' = (flows \ {f}) \cup {[f EXCEPT !.pc = "p_send"]}
    /\ UNCHANGED <<domainExists, nLeads, sessions, domainStatus, mailLog, inbox,
                   nextMid, sendsLeft, activeSessions, insts, timers, calls,
                   callsLeft, timeoutsLeft, maxInFlight, listener, draw>>

\* generateOutboundEmail throws
PGenFail(f) ==
    /\ f.pc = "p_gen"
    /\ flows' = (flows \ {f}) \cup ProcessThrows(f)
    /\ UNCHANGED <<domainExists, nLeads, sessions, domainStatus, mailLog, inbox,
                   nextMid, sendsLeft, activeSessions, insts, timers, calls,
                   callsLeft, timeoutsLeft, maxInFlight, listener, draw>>

\* sendEmail returns: the message is in the lead's mailbox
PSendOk(f) ==
    /\ f.pc = "p_send"
    /\ sendsLeft > 0
    /\ sendsLeft' = sendsLeft - 1
    /\ inbox' = inbox \cup {Msg(LeadAddr(f.lead), DomainAddr, Mid(nextMid), NullMid)}
    /\ nextMid' = nextMid + 1
    /\ flows' = (flows \ {f}) \cup {[f EXCEPT !.pc = "p_log", !.m = Mid(nextMid)]}
    /\ UNCHANGED <<domainExists, nLeads, sessions, domainStatus, mailLog,
                   activeSessions, insts, timers, calls, callsLeft,
                   timeoutsLeft, maxInFlight, listener, draw>>

\* sendEmail throws
PSendFail(f) ==
    /\ f.pc = "p_send"
    /\ flows' = (flows \ {f}) \cup ProcessThrows(f)
    /\ UNCHANGED <<domainExists, nLeads, sessions, domainStatus, mailLog, inbox,
                   nextMid, sendsLeft, activeSessions, insts, timers, calls,
                   callsLeft, timeoutsLeft, maxInFlight, listener, draw>>

PLog_mutant(f) ==
    /\ f.pc = "p_log"
    /\ mailLog' = IF insts[f.a].isPaused THEN mailLog
                  ELSE Append(mailLog, LogEntry(Sid(f.a), "sent", f.i, DomainAddr,
                                                LeadAddr(f.lead), f.m, NullMid))
    /\ flows' = (flows \ {f}) \cup {[f EXCEPT !.pc = "p_upd"]}
    /\ UNCHANGED <<domainExists, nLeads, sessions, domainStatus, inbox, nextMid,
                   sendsLeft, activeSessions, insts, timers, calls, callsLeft,
                   timeoutsLeft, maxInFlight, listener, draw>>

\* mailLogRepo.create({direction: 'sent'})
PLog(f) ==
    /\ f.pc = "p_log"
    /\ mailLog' = Append(mailLog, LogEntry(Sid(f.a), "sent", f.i, DomainAddr,
                                           LeadAddr(f.lead), f.m, NullMid))
    /\ flows' = (flows \ {f}) \cup {[f EXCEPT !.pc = "p_upd"]}
    /\ UNCHANGED <<domainExists, nLeads, sessions, domainStatus, inbox, nextMid,
                   sendsLeft, activeSessions, insts, timers, calls, callsLeft,
                   timeoutsLeft, maxInFlight, listener, draw>>

\* setupLeadAutoReply: on the registered object, replace the lead listener by a
\* new one on the lead's mailbox and connect it.
SetupLeadAutoReply(is, lead) ==
    IF activeSessions = 0 THEN is
    ELSE [is EXCEPT ![activeSessions].leadImapListener = Armed(lead)]

\* updateStatus(session.id, 'waiting_reply', {last_message_id, current_lead_index});
\* active.session = the row; setupLeadAutoReply
PUpd(f) ==
    /\ f.pc = "p_upd"
    /\ sessions' = UpdateStatus(Sid(f.a), "waiting_reply",
                      [last_message_id |-> f.m, current_lead_index |-> f.i])
    /\ insts' = SetupLeadAutoReply(
                    [insts EXCEPT ![f.a].session.current_lead_index =
                                      sessions'[Sid(f.a)].current_lead_index],
                    f.lead)
    /\ flows' = flows \ {f}
    /\ UNCHANGED <<domainExists, nLeads, domainStatus, mailLog, inbox, nextMid,
                   sendsLeft, activeSessions, timers, calls, callsLeft,
                   timeoutsLeft, maxInFlight, listener, draw>>

----------------------------------------------------------------------------
\* failSession and completeSession

\* What failSession writes to the session row.
FailWrite(f) == UpdateStatus(Sid(f.a), "failed", [error_message |-> f.e])

FUpd(f) ==
    /\ f.pc = "f_upd"
    /\ sessions' = FailWrite(f)
    /\ flows' = (flows \ {f}) \cup {[f EXCEPT !.pc = "f_dom"]}
    /\ UNCHANGED <<domainExists, nLeads, domainStatus, mailLog, inbox, nextMid,
                   sendsLeft, activeSessions, insts, timers, calls, callsLeft,
                   timeoutsLeft, maxInFlight, listener, draw>>

\* domainAccountRepo.updateStatus(idle); cleanupSession
FDom(f) ==
    /\ f.pc = "f_dom"
    /\ domainStatus' = "idle"
    /\ insts' = CleanupInsts(insts)
    /\ timers' = CleanupTimers(timers)
    /\ activeSessions' = 0
    /\ flows' = flows \ {f}
    /\ UNCHANGED <<domainExists, nLeads, sessions, mailLog, inbox, nextMid,
                   sendsLeft, calls, callsLeft, timeoutsLeft, maxInFlight, listener, draw>>

CUpd(f) ==
    /\ f.pc = "c_upd"
    /\ sessions' = UpdateStatus(Sid(f.a), "completed", [completed_at |-> "set"])
    /\ flows' = (flows \ {f}) \cup {[f EXCEPT !.pc = "c_dom"]}
    /\ UNCHANGED <<domainExists, nLeads, domainStatus, mailLog, inbox, nextMid,
                   sendsLeft, activeSessions, insts, timers, calls, callsLeft,
                   timeoutsLeft, maxInFlight, listener, draw>>

CDom(f) ==
    /\ f.pc = "c_dom"
    /\ domainStatus' = "idle"
    /\ insts' = CleanupInsts(insts)
    /\ timers' = CleanupTimers(timers)
    /\ activeSessions' = 0
    /\ flows' = flows \ {f}
    /\ UNCHANGED <<domainExists, nLeads, sessions, mailLog, inbox, nextMid,
                   sendsLeft, calls, callsLeft, timeoutsLeft, maxInFlight, listener, draw>>

----------------------------------------------------------------------------
\* Lead-side subscription (setupLeadAutoReply) and the lead's reply (sendLeadReply)

Timer(a, kind, lead, m) == [a |-> a, kind |-> kind, lead |-> lead, m |-> m]

\* The lead listener of object a fetches an UNSEEN message sent by the domain and
\* calls onEmail, which runs up to its await of mailLogRepo.create.
DeliverLead(a) ==
    /\ insts[a].leadImapListener.st # "none"
    /\ \E msg \in inbox :
        /\ msg.to = LeadAddr(insts[a].leadImapListener.lead)
        /\ msg.from = DomainAddr
        /\ inbox' = inbox \ {msg}
        /\ flows' = flows \cup
              {Flow("le_log", a, insts[a].session.current_lead_index,
                    insts[a].leadImapListener.lead, msg.mid, NullMid, "null", "none")}
    /\ UNCHANGED <<domainExists, nLeads, sessions, domainStatus, mailLog,
                   nextMid, sendsLeft, activeSessions, insts, timers, calls,
                   callsLeft, timeoutsLeft, maxInFlight, listener, draw>>

\* mailLogRepo.create({direction: 'received'}); the lead listener of the captured
\* object is disconnected and the reply timer created.
LeLog(f) ==
    /\ f.pc = "le_log"
    /\ mailLog' = Append(mailLog, LogEntry(Sid(f.a), "received", f.i, DomainAddr,
                                           LeadAddr(f.lead), f.m, NullMid))
    /\ insts' = [insts EXCEPT ![f.a].leadImapListener = NoListener]
    /\ timers' = timers \cup {Timer(f.a, "reply", f.lead, f.m)}
    /\ flows' = flows \ {f}
    /\ UNCHANGED <<domainExists, nLeads, sessions, domainStatus, inbox, nextMid,
                   sendsLeft, activeSessions, calls, callsLeft, timeoutsLeft,
                   maxInFlight, listener, draw>>

\* skipToNextLead, up to its await of updateStatus, on objects is.
SkipInsts(is) ==
    IF activeSessions = 0 \/ is[activeSessions].isPaused THEN is
    ELSE DisconnectBoth(is, activeSessions)

SkipEntry(is) ==
    IF activeSessions = 0 \/ is[activeSessions].isPaused THEN {}
    ELSE {Flow("k_upd", activeSessions,
               is[activeSessions].session.current_lead_index + 1, 0,
               NullMid, NullMid, "null", "none")}

\* The wait timer of the lead listener of a fires: onTimeout, skipToNextLead.
TimeoutLead(a) ==
    /\ insts[a].leadImapListener.st = "armed"
    /\ timeoutsLeft > 0
    /\ timeoutsLeft' = timeoutsLeft - 1
    /\ insts' = SkipInsts([insts EXCEPT ![a].leadImapListener.st = "fired"])
    /\ flows' = flows \cup SkipEntry(insts)
    /\ UNCHANGED <<domainExists, nLeads, sessions, domainStatus, mailLog, inbox,
                   nextMid, sendsLeft, activeSessions, timers, calls, callsLeft,
                   maxInFlight, listener, draw>>

\* The reply timer fires: registry and paused are checked, sendLeadReply is entered.
FireReply(t) ==
    /\ t \in timers /\ t.kind = "reply"
    /\ timers' = timers \ {t}
    /\ flows' = flows \cup
          (IF activeSessions = 0 \/ insts[activeSessions].isPaused THEN {}
           ELSE {Flow("r_gen", activeSessions, 0, t.lead, t.m, NullMid, "null", "none")})
    /\ UNCHANGED <<domainExists, nLeads, sessions, domainStatus, mailLog, inbox,
                   nextMid, sendsLeft, activeSessions, insts, calls, callsLeft,
                   timeoutsLeft, maxInFlight, listener, draw>>

\* What an error thrown by sendLeadReply leaves: the timer callback has no handler.
ReplyThrows(f) == {}

\* generateReplyEmail returns
RGenOk(f) ==
    /\ f.pc = "r_gen"
    /\ flows' = (flows \ {f}) \cup {[f EXCEPT !.pc = "r_send"]}
    /\ UNCHANGED <<domainExists, nLeads, sessions, domainStatus, mailLog, inbox,
                   nextMid, sendsLeft, activeSessions, insts, timers, calls,
                   callsLeft, timeoutsLeft, maxInFlight, listener, draw>>

\* generateReplyEmail throws
RGenFail(f) ==
    /\ f.pc = "r_gen"
    /\ flows' = (flows \ {f}) \cup ReplyThrows(f)
    /\ UNCHANGED <<domainExists, nLeads, sessions, domainStatus, mailLog, inbox,
                   nextMid, sendsLeft, activeSessions, insts, timers, calls,
                   callsLeft, timeoutsLeft, maxInFlight, listener, draw>>

\* sendEmail from the lead returns: the reply is in the domain's mailbox
RSendOk(f) ==
    /\ f.pc = "r_send"
    /\ sendsLeft > 0
    /\ sendsLeft' = sendsLeft - 1
    /\ inbox' = inbox \cup {Msg(DomainAddr, LeadAddr(f.lead), Mid(nextMid), f.m)}
    /\ nextMid' = nextMid + 1
    /\ flows' = (flows \ {f}) \cup
          {[f EXCEPT !.pc = "r_log", !.m2 = Mid(nextMid),
                     !.i = insts[f.a].session.current_lead_index]}
    /\ UNCHANGED <<domainExists, nLeads, sessions, domainStatus, mailLog,
                   activeSessions, insts, timers, calls, callsLeft,
                   timeoutsLeft, maxInFlight, listener, draw>>

\* sendEmail from the lead throws
RSendFail(f) ==
    /\ f.pc = "r_send"
    /\ flows' = (flows \ {f}) \cup ReplyThrows(f)
    /\ UNCHANGED <<domainExists, nLeads, sessions, domainStatus, mailLog, inbox,
                   nextMid, sendsLeft, activeSessions, insts, timers, calls,
                   callsLeft, timeoutsLeft, maxInFlight, listener, draw>>

\* setupDomainReplyListener: on the registered object, replace the domain listener.
SetupDomainReplyListener(is, lead) ==
    IF activeSessions = 0 THEN is
    ELSE [is EXCEPT ![activeSessions].domainImapListener = Armed(lead)]

\* mailLogRepo.create({direction: 'replied'}); setupDomainReplyListener
RLog(f) ==
    /\ f.pc = "r_log"
    /\ mailLog' = Append(mailLog, LogEntry(Sid(f.a), "replied", f.i, LeadAddr(f.lead),
                                           DomainAddr, f.m2, f.m))
    /\ insts' = SetupDomainReplyListener(insts, f.lead)
    /\ flows' = flows \ {f}
    /\ UNCHANGED <<domainExists, nLeads, sessions, domainStatus, inbox, nextMid,
                   sendsLeft, activeSessions, timers, calls, callsLeft,
                   timeoutsLeft, maxInFlight, listener, draw>>

----------------------------------------------------------------------------
\* Domain-side subscription (setupDomainReplyListener), skipToNextLead, delay timers

DeliverDomain(a) ==
    /\ insts[a].domainImapListener.st # "none"
    /\ \E msg \in inbox :
        /\ msg.to = DomainAddr
        /\ msg.from = LeadAddr(insts[a].domainImapListener.lead)
        /\ inbox' = inbox \ {msg}
        /\ flows' = flows \cup
              {Flow("de_log", a, insts[a].session.current_lead_index,
                    insts[a].domainImapListener.lead, msg.mid, msg.irt, "null", "none")}
    /\ UNCHANGED <<domainExists, nLeads, sessions, domainStatus, mailLog,
                   nextMid, sendsLeft, activeSessions, insts, timers, calls,
                   callsLeft, timeoutsLeft, maxInFlight, listener, draw>>

\* mailLogRepo.create({direction: 'received'}); the domain listener is
\* disconnected; nextIndex is computed and updateStatus called.
DeLog(f) ==
    /\ f.pc = "de_log"
    /\ mailLog' = Append(mailLog, LogEntry(Sid(f.a), "received", f.i, LeadAddr(f.lead),
                                           DomainAddr, f.m, f.m2))
    /\ insts' = [insts EXCEPT ![f.a].domainImapListener = NoListener]
    /\ flows' = (flows \ {f}) \cup
          {[f EXCEPT !.pc = "de_upd", !.i = insts[f.a].session.current_lead_index + 1]}
    /\ UNCHANGED <<domainExists, nLeads, sessions, domainStatus, inbox, nextMid,
                   sendsLeft, activeSessions, timers, calls, callsLeft,
                   timeoutsLeft, maxInFlight, listener, draw>>

\* An advance that skips a lead.
AdvanceIndex_mutant(nextIndex) == nextIndex + 1

\* The index the advance writes, from nextIndex.
AdvanceIndex(nextIndex) == nextIndex

\* updateStatus(active.session.id, 'sending', {current_lead_index: nextIndex});
\* then completeSession, or the timer of the next lead.  The same continuation
\* ends the arrival callback of the domain listener (de_upd) and skipToNextLead
\* (k_upd).
Advance(f) ==
    /\ f.pc \in {"de_upd", "k_upd"}
    /\ sessions' = UpdateStatus(Sid(f.a), "sending",
                                [current_lead_index |-> AdvanceIndex(f.i)])
    /\ insts' = [insts EXCEPT ![f.a].session.current_lead_index =
                                  sessions'[Sid(f.a)].current_lead_index]
    /\ IF f.i >= insts[f.a].leads
       THEN /\ flows' = (flows \ {f}) \cup CompleteEntry(activeSessions)
            /\ UNCHANGED timers
       ELSE /\ flows' = flows \ {f}
            /\ timers' = timers \cup {Timer(f.a, "next", 0, NullMid)}
    /\ UNCHANGED <<domainExists, nLeads, domainStatus, mailLog, inbox, nextMid,
                   sendsLeft, activeSessions, calls, callsLeft, timeoutsLeft,
                   maxInFlight, listener, draw>>

DeUpd(f) == f.pc = "de_upd" /\ Advance(f)
KUpd(f) == f.pc = "k_upd" /\ Advance(f)

TimeoutDomain(a) ==
    /\ insts[a].domainImapListener.st = "armed"
    /\ timeoutsLeft > 0
    /\ timeoutsLeft' = timeoutsLeft - 1
    /\ insts' = SkipInsts([insts EXCEPT ![a].domainImapListener.st = "fired"])
    /\ flows' = flows \cup SkipEntry(insts)
    /\ UNCHANGED <<domainExists, nLeads, sessions, domainStatus, mailLog, inbox,
                   nextMid, sendsLeft, activeSessions, timers, calls, callsLeft,
                   maxInFlight, listener, draw>>

\* The timer of the next lead fires: processNextLead
FireNext(t) ==
    /\ t \in timers /\ t.kind = "next"
    /\ timers' = timers \ {t}
    /\ flows' = flows \cup ProcessEntry(activeSessions, insts, "timer")
    /\ UNCHANGED <<domainExists, nLeads, sessions, domainStatus, mailLog, inbox,
                   nextMid, sendsLeft, activeSessions, insts, calls, callsLeft,
                   timeoutsLeft, maxInFlight, listener, draw>>

----------------------------------------------------------------------------
\* The steps, by the function they belong to

StartStep(c) ==
    \/ StartCall(c)
    \/ StartFindDomain(c)
    \/ StartFindLeads(c)
    \/ StartFindCompleted(c)
    \/ StartUpdCompleted(c)
    \/ StartFindActive(c)
    \/ StartUpdResume(c)
    \/ StartCreateSelect(c)
    \/ StartCreateReset(c)
    \/ StartCreateInsert(c)
    \/ StartUpdDomain(c)

PauseStep(c) ==
    \/ PauseCall(c)
    \/ PauseUpd(c)
    \/ PauseDom(c)

StopStep(c) ==
    \/ StopCall(c)
    \/ StopFind(c)
    \/ StopUpd(c)
    \/ StopDom(c)
    \/ StopFailUpd(c)
    \/ StopFailDom(c)

StatusStep(c) ==
    \/ StatusCall(c)
    \/ StatusFindActive(c)
    \/ StatusFindCompleted(c)
    \/ StatusFindLeads(c)

\* The steps of the per-lead cycle in which nothing throws.
CycleStep(f) ==
    \/ PGenOk(f)
    \/ PSendOk(f)
    \/ PLog(f)
    \/ PUpd(f)
    \/ LeLog(f)
    \/ RGenOk(f)
    \/ RSendOk(f)
    \/ RLog(f)
    \/ DeLog(f)
    \/ DeUpd(f)
    \/ CUpd(f)
    \/ CDom(f)

\* The outbound message fails, and failSession.
ProcessFailStep(f) ==
    \/ PGenFail(f)
    \/ PSendFail(f)
    \/ FUpd(f)
    \/ FDom(f)

\* The lead's reply fails.
ReplyFailStep(f) ==
    \/ RGenFail(f)
    \/ RSendFail(f)

DeliverStep(a) ==
    \/ DeliverLead(a)
    \/ DeliverDomain(a)

TimeoutStep(a) ==
    \/ TimeoutLead(a)
    \/ TimeoutDomain(a)

TimerStep(t) ==
    \/ FireReply(t)
    \/ FireNext(t)

----------------------------------------------------------------------------
\* Spec: the whole program.  Two clients call start, pause and stop at any time,
\* every send can fail, every subscription can run out of its wait budget.

Next ==
    \/ AddLead
    \/ \E c \in Callers : StartStep(c) \/ PauseStep(c) \/ StopStep(c)
    \/ \E f \in flows : CycleStep(f) \/ ProcessFailStep(f) \/ ReplyFailStep(f) \/ KUpd(f)
    \/ \E a \in 1..Len(insts) : DeliverStep(a) \/ TimeoutStep(a)
    \/ \E t \in timers : TimerStep(t)

Spec == Init /\ [][Next]_vars

----------------------------------------------------------------------------
\* SpecStart: startWarmup alone.  The process boots on any tables and two clients
\* call start; the flows a start launches are not scheduled.

InitStart ==
    /\ Boot(BootRows(MaxLeads))
    /\ callsLeft = MaxStartCalls
    /\ sendsLeft = 0
    /\ timeoutsLeft = 0
    /\ maxInFlight = Cardinality(Callers)

NextStart ==
    \/ AddLead
    \/ \E c \in Callers : StartStep(c)

SpecStart == InitStart /\ [][NextStart]_vars

----------------------------------------------------------------------------
\* SpecSerial: one client, which waits for the answer of a call before it makes
\* the next; every send can fail; no subscription runs out of its wait budget.

InitSerial ==
    /\ Boot(PausedAtBoot)
    /\ callsLeft = MaxSerialCalls
    /\ sendsLeft = MaxSerialSends
    /\ timeoutsLeft = 0
    /\ maxInFlight = 1

NextSerial ==
    \/ AddLead
    \/ \E c \in Callers : StartStep(c) \/ PauseStep(c) \/ StopStep(c)
    \/ \E f \in flows : CycleStep(f) \/ ProcessFailStep(f) \/ ReplyFailStep(f)
    \/ \E a \in 1..Len(insts) : DeliverStep(a)
    \/ \E t \in timers : TimerStep(t)

SpecSerial == InitSerial /\ [][NextSerial]_vars

----------------------------------------------------------------------------
\* SpecHappy: the happy path.  The tables hold no row of today, one client calls
\* start, nothing throws, every message is delivered to the subscription waiting
\* for it.  The event loop runs every continuation, timer and IMAP event that is
\* ready.

\* Both messages of every lead's cycle are accepted.
HappySends == 2 * MaxLeads

InitHappy ==
    /\ Boot({})
    /\ callsLeft = MaxHappyCalls
    /\ sendsLeft = HappySends
    /\ timeoutsLeft = 0
    /\ maxInFlight = 1

\* startWarmup without the branches that need a paused or failed row.
HappyStartStep(c) ==
    \/ StartCall(c)
    \/ StartFindDomain(c)
    \/ StartFindLeads(c)
    \/ StartFindCompleted(c)
    \/ StartUpdCompleted(c)
    \/ StartFindActive(c)
    \/ StartCreateSelect(c)
    \/ StartCreateInsert(c)
    \/ StartUpdDomain(c)

EventLoop ==
    \/ \E f \in flows : CycleStep(f)
    \/ \E a \in 1..Len(insts) : DeliverStep(a)
    \/ \E t \in timers : TimerStep(t)

NextHappy ==
    \/ AddLead
    \/ \E c \in Callers : HappyStartStep(c)
    \/ EventLoop

SpecHappy == InitHappy /\ [][NextHappy]_vars /\ WF_vars(EventLoop)

----------------------------------------------------------------------------
\* SpecResume: pause and resume.  The tables hold no row of today, one client
\* calls start and pause, waiting for each answer; nothing throws, no subscription
\* runs out of its wait budget.

InitResume ==
    /\ Boot({})
    /\ callsLeft = MaxResumeCalls
    /\ sendsLeft = MaxResumeSends
    /\ timeoutsLeft = 0
    /\ maxInFlight = 1

\* startWarmup without the branch that needs a failed row.
ResumeStartStep(c) ==
    \/ HappyStartStep(c)
    \/ StartUpdResume(c)

NextResume ==
    \/ AddLead
    \/ \E c \in Callers : ResumeStartStep(c) \/ PauseStep(c)
    \/ EventLoop

SpecResume == InitResume /\ [][NextResume]_vars

----------------------------------------------------------------------------
\* SpecSkip: timeout skips.  The tables hold no row of today, one client calls
\* start, nothing throws; a subscription can run out of its wait budget, also
\* while the message it waits for is being handled.

InitSkip ==
    /\ Boot({})
    /\ callsLeft = MaxSkipCalls
    /\ sendsLeft = MaxSkipSends
    /\ timeoutsLeft = MaxTimeouts
    /\ maxInFlight = 1

NextSkip ==
    \/ AddLead
    \/ \E c \in Callers : HappyStartStep(c)
    \/ EventLoop
    \/ \E f \in flows : KUpd(f)
    \/ \E a \in 1..Len(insts) : TimeoutStep(a)

SpecSkip == InitSkip /\ [][NextSkip]_vars

----------------------------------------------------------------------------
\* SpecStatus: the status route.  The process boots on any tables and two clients
\* call start and ask for the status; the flows a start launches are not scheduled.

InitStatus ==
    /\ Boot(BootRows(MaxLeads))
    /\ callsLeft = MaxStatusCalls
    /\ sendsLeft = 0
    /\ timeoutsLeft = 0
    /\ maxInFlight = Cardinality(Callers)

NextStatus ==
    \/ AddLead
    \/ \E c \in Callers : StartStep(c) \/ StatusStep(c)

SpecStatus == InitStatus /\ [][NextStatus]_vars

----------------------------------------------------------------------------
\* SpecShutdown: graceful shutdown.  The tables hold no row of today, one client
\* calls start, nothing throws; the termination signal arrives at any moment
\* between two requests.

InitShutdown ==
    /\ Boot({})
    /\ callsLeft = MaxShutdownCalls
    /\ sendsLeft = MaxShutdownSends
    /\ timeoutsLeft = 0
    /\ maxInFlight = 1

NextShutdown ==
    \/ AddLead
    \/ \E c \in Callers : HappyStartStep(c)
    \/ \E c \in Callers : ShutdownCall(c) \/ PauseUpd(c) \/ PauseDom(c)
    \/ EventLoop

SpecShutdown == InitShutdown /\ [][NextShutdown]_vars

----------------------------------------------------------------------------
\* ImapListener (backend/src/services/imapListener.ts), one object on its own.
\* The IMAP library delivers the events ready, error, end, close and mail; the
\* object owns a wait timer, a poll timer and the timers of its reconnects.  Its
\* two callbacks are the ones the orchestrator passes: onEmail is an arrival
\* callback, which disconnects the listener after its awaited log insert, and
\* onTimeout is skipToNextLead, which disconnects the listeners of the registered
\* orchestrator unless none is registered or the registered one is paused.

MAX_RECONNECT_ATTEMPTS == 5

\* The delay of the reconnect scheduled as attempt number n, in ms.
ReconnectDelay(n) == 5000 * n

\* new ImapListener(config, onEmail, onTimeout); connect().  owner says whether
\* skipToNextLead finds the orchestrator registered and not paused ("active") or
\* not ("stale": setupLeadAutoReply connects a listener for a paused orchestrator
\* too); unseen counts the unseen messages of the expected sender in the mailbox;
\* faults bounds the failures of the connection.  timeouts, delivered, scheduled
\* and connects count the calls of onTimeout and of onEmail, and the reconnects
\* scheduled and the connect() calls made since the last ready (kept for the
\* properties; the code has no such counters).
NewListener(owner, unseen) ==
    [conn |-> "connecting", isConnected |-> FALSE, isDestroyed |-> FALSE,
     reconnectAttempts |-> 0, waitTimer |-> FALSE, reconnects |-> <<>>,
     unseen |-> unseen, parsing |-> 0, accepting |-> 0, owner |-> owner,
     faults |-> MaxFaults, timeouts |-> 0, delivered |-> 0, scheduled |-> 0,
     connects |-> 0]

\* disconnect(): isDestroyed, stopPolling, clearWaitTimeout, imap.end()
Disconnect(l) ==
    [l EXCEPT !.isDestroyed = TRUE, !.isConnected = FALSE, !.waitTimer = FALSE,
              !.conn = "down"]

\* onTimeout(): skipToNextLead disconnects the listener if its guard passes.
OnTimeout(l) ==
    IF l.owner = "active"
    THEN Disconnect([l EXCEPT !.timeouts = @ + 1])
    ELSE [l EXCEPT !.timeouts = @ + 1]

\* safeReconnect()
SafeReconnect(l) ==
    IF l.isDestroyed THEN l
    ELSE IF l.reconnectAttempts + 1 > MAX_RECONNECT_ATTEMPTS
         THEN OnTimeout([l EXCEPT !.reconnectAttempts = @ + 1])
         ELSE [l EXCEPT !.reconnectAttempts = @ + 1,
                        !.reconnects = Append(@, ReconnectDelay(l.reconnectAttempts + 1)),
                        !.scheduled = @ + 1]

\* The frame of the steps of the listener.
ListenerFrame ==
    UNCHANGED <<domainExists, nLeads, sessions, domainStatus, mailLog, inbox,
                nextMid, activeSessions, insts, timers, flows, calls, callsLeft,
                sendsLeft, timeoutsLeft, maxInFlight, draw>>

\* imap 'ready': isConnected, reconnectAttempts = 0, openInbox
LReady ==
    /\ listener.conn = "connecting"
    /\ listener' = [listener EXCEPT !.conn = "opening", !.isConnected = TRUE,
                       !.reconnectAttempts = 0,
                       !.scheduled = 0, !.connects = 0]
    /\ ListenerFrame

\* openBox succeeded: the mail handler is set, startPolling, startWaitTimeout
LOpenOk ==
    /\ listener.conn = "opening"
    /\ listener' = [listener EXCEPT !.conn = "open", !.waitTimer = TRUE]
    /\ ListenerFrame

\* openBox failed: logged, nothing started
LOpenFail ==
    /\ listener.conn = "opening"
    /\ listener.faults > 0
    /\ listener' = [listener EXCEPT !.conn = "unopened", !.faults = @ - 1]
    /\ ListenerFrame

Live == {"connecting", "opening", "open", "unopened"}

\* imap 'error'
LError ==
    /\ listener.conn \in Live
    /\ listener.faults > 0
    /\ listener' = SafeReconnect([listener EXCEPT !.faults = @ - 1])
    /\ ListenerFrame

\* imap 'end'
LEnd ==
    /\ listener.conn \in Live \ {"connecting"}
    /\ listener.faults > 0
    /\ listener' = SafeReconnect([listener EXCEPT !.faults = @ - 1,
                                                  !.isConnected = FALSE])
    /\ ListenerFrame

\* imap 'close': the connection is gone
LClose ==
    /\ listener.conn \in Live
    /\ listener.faults > 0
    /\ listener' = SafeReconnect([listener EXCEPT !.faults = @ - 1,
                                                  !.isConnected = FALSE,
                                                  !.conn = "down"])
    /\ ListenerFrame

\* A reconnect timer fires: connect() unless destroyed
LReconnect ==
    /\ \E k \in 1..Len(listener.reconnects) :
         LET rest == [listener EXCEPT !.reconnects =
                         SubSeq(@, 1, k - 1) \o SubSeq(@, k + 1, Len(@))]
         IN  listener' = IF listener.isDestroyed THEN rest
                         ELSE [rest EXCEPT !.conn = "connecting", !.connects = @ + 1]
    /\ ListenerFrame

\* The wait timer fires: onTimeout() unless destroyed
LWaitFires ==
    /\ listener.waitTimer
    /\ listener' = IF listener.isDestroyed THEN [listener EXCEPT !.waitTimer = FALSE]
                   ELSE OnTimeout([listener EXCEPT !.waitTimer = FALSE])
    /\ ListenerFrame

\* fetchNewMessages (mail event, first check or poll) finds an unseen message of
\* the expected sender, fetches it (markSeen) and parseMessage awaits simpleParser
LFetch ==
    /\ listener.conn = "open"
    /\ listener.unseen > 0
    /\ listener' = [listener EXCEPT !.unseen = @ - 1, !.parsing = @ + 1]
    /\ ListenerFrame

\* simpleParser returns: onEmail(email); the arrival callback awaits its insert
LParsed ==
    /\ listener.parsing > 0
    /\ listener' = [listener EXCEPT !.parsing = @ - 1, !.delivered = @ + 1,
                                    !.accepting = @ + 1]
    /\ ListenerFrame

\* The arrival callback's insert returns: it disconnects the listener
LAccept ==
    /\ listener.accepting > 0
    /\ listener' = Disconnect([listener EXCEPT !.accepting = @ - 1])
    /\ ListenerFrame

\* The tables empty and the orchestrator idle: the state of everything else while
\* a unit is studied on its own.
Elsewhere ==
    /\ domainExists = FALSE /\ nLeads = 0 /\ sessions = <<>>
    /\ domainStatus = "idle" /\ mailLog = <<>> /\ inbox = {} /\ nextMid = 1
    /\ activeSessions = 0 /\ insts = <<>> /\ timers = {} /\ flows = {}
    /\ calls = [c \in Callers |-> IdleCall]
    /\ callsLeft = 0 /\ sendsLeft = 0 /\ timeoutsLeft = 0 /\ maxInFlight = 1

InitListener ==
    /\ Elsewhere
    /\ draw = NoDraw
    /\ listener \in {NewListener(o, u) : o \in {"active", "stale"}, u \in 0..MaxUnseen}

NextListener ==
    \/ LReady
    \/ LOpenOk
    \/ LOpenFail
    \/ LError
    \/ LEnd
    \/ LClose
    \/ LReconnect
    \/ LWaitFires
    \/ LFetch
    \/ LParsed
    \/ LAccept

SpecListener == InitListener /\ [][NextListener]_vars

----------------------------------------------------------------------------
\* Properties

Concurrent(c, d) == calls[c].peer = calls[d].n \/ calls[d].peer = calls[c].n

Returned(c, op) == calls[c].op = op /\ calls[c].pc = "done"

\* Call c returns in this step.
Returns(c, op) == calls[c].op = op /\ calls[c].pc # "done" /\ calls'[c].pc = "done"

\* C1: of two start calls for the domain that ran concurrently, exactly one
\* returned a session (and so exactly one orchestrator was registered and one
\* processNextLead launched); the other failed.
C1_OneStartWins ==
    \A c, d \in Callers :
        (c # d /\ Returned(c, "start") /\ Returned(d, "start") /\ Concurrent(c, d))
            => ~(calls[c].res = "ok" /\ calls[d].res = "ok")

\* C2: no step writes to a session row a current_lead_index smaller than the one
\* the row holds.
C2_IndexMonotonic ==
    [][\A id \in 1..Len(sessions) :
          sessions'[id].current_lead_index >= sessions[id].current_lead_index]_vars

\* The edges of the session state machine, as pairs <<from, to>>.
Edges ==
    {<<"pending", "sending">>, <<"sending", "waiting_reply">>,
     <<"waiting_reply", "sending">>, <<"paused", "sending">>,
     <<"completed", "sending">>}
    \cup {<<st, to>> : st \in NonTerminal \ {"paused"}, to \in {"paused"}}
    \cup {<<st, to>> : st \in NonTerminal, to \in {"completed", "failed"}}

\* A start call writes the row in this step (resume of a paused or completed row).
StartWrites == \E c \in Callers : calls[c].pc \in {"updResume", "updCompleted"}
                                      /\ calls'[c].pc = "updDomain"

\* C3: every change of a row's status follows an edge of the state machine;
\* failed is never left, and only start moves a paused or completed row to sending.
C3_StatusEdges ==
    [][\A id \in 1..Len(sessions) :
          sessions'[id].status # sessions[id].status =>
              /\ <<sessions[id].status, sessions'[id].status>> \in Edges
              /\ (sessions[id].status \in {"paused", "completed"}
                    /\ sessions'[id].status = "sending") => StartWrites]_vars

\* C5: when pause returns successfully the row is paused and holds the index it
\* held when pause was called, the domain is paused, no orchestrator is registered.
C5_PauseReturn ==
    [][\A c \in Callers :
          (Returns(c, "pause") /\ calls'[c].res = "ok") =>
              /\ sessions'[calls[c].sid].status = "paused"
              /\ sessions'[calls[c].sid].current_lead_index = calls[c].i
              /\ domainStatus' = "paused"
              /\ activeSessions' = 0]_vars

\* A start call writes the row in this step (create-or-reset).
StartResets == \E c \in Callers : calls[c].pc = "createReset" /\ calls'[c].pc = "updDomain"

\* C6: when stop returns, the row it stopped is failed with 'Manually stopped by
\* user', the domain is idle and no orchestrator is registered; a stop that found
\* nothing changes nothing; the stopped row stays failed until a start resets it.
C6_StopReturn ==
    [][/\ \A c \in Callers :
            Returns(c, "stop") =>
                IF calls'[c].sid = 0
                THEN UNCHANGED <<sessions, domainStatus, activeSessions>>
                ELSE /\ sessions'[calls'[c].sid].status = "failed"
                     /\ sessions'[calls'[c].sid].error_message = ErrManual
                     /\ domainStatus' = "idle"
                     /\ activeSessions' = 0
       /\ \A id \in 1..Len(sessions) :
            (/\ sessions[id].status = "failed"
             /\ sessions[id].error_message = ErrManual
             /\ sessions'[id].status # "failed") => StartResets]_vars

\* The orchestrator registered holds no subscription, no timer, no step in flight.
Stranded ==
    /\ activeSessions # 0
    /\ insts[activeSessions].leadImapListener.st # "armed"
    /\ insts[activeSessions].domainImapListener.st # "armed"
    /\ TimersOf(activeSessions) = {}
    /\ flows = {}
    /\ \A c \in Callers : Free(c)

\* C9: a failure of the lead's reply fails the session; the session is never left
\* registered in waiting_reply without subscription, timer or step in flight.
C9_NeverStranded ==
    ~(Stranded /\ sessions[Sid(activeSessions)].status = "waiting_reply")

----------------------------------------------------------------------------
\* startWarmup, step by step (C4, C7)

\* Caller c takes a step of a start call.
StartSteps(c) == calls'[c] # calls[c] /\ calls'[c].op = "start"

\* Call c is rejected with res in this step.
Rejected(c, res) == calls'[c].pc = "done" /\ calls'[c].res = res

CompletedRows == {id \in 1..Len(sessions) : sessions[id].status = "completed"}
PausedRows == {id \in 1..Len(sessions) : sessions[id].status = "paused"}
OtherActiveRows ==
    {id \in 1..Len(sessions) : sessions[id].status \in {"pending", "sending", "waiting_reply"}}

\* The row id of the store is set to sending and keeps its index, which the call
\* takes as the index to resume from.
Resumes(c, id) ==
    /\ sessions'[id].status = "sending"
    /\ sessions'[id].current_lead_index = sessions[id].current_lead_index
    /\ calls'[c].pc = "updDomain"
    /\ calls'[c].sid = id
    /\ calls'[c].i = sessions[id].current_lead_index

\* C4: start resolves its outcome in the fixed order registered, unknown domain,
\* no leads, completed row (resume if leads.length > index, else reject), paused
\* row (sending, resume from the stored index), other non-terminal row (reject),
\* create-or-reset; a rejected call changes no row, domain status or registry.
C4_StartOrder ==
    [][\A c \in Callers : StartSteps(c) =>
        /\ Free(c) =>
              IF activeSessions # 0 THEN Rejected(c, "err_active")
              ELSE calls'[c].pc = "findDomain"
        /\ calls[c].pc = "findDomain" =>
              IF ~domainExists THEN Rejected(c, "err_nodomain")
              ELSE calls'[c].pc = "findLeads"
        /\ calls[c].pc = "findLeads" =>
              IF nLeads = 0 THEN Rejected(c, "err_noleads")
              ELSE calls'[c].pc = "findCompleted" /\ calls'[c].leads = nLeads
        /\ calls[c].pc = "findCompleted" =>
              IF CompletedRows = {} THEN calls'[c].pc = "findActive"
              ELSE \E id \in CompletedRows :
                      IF calls[c].leads > sessions[id].current_lead_index
                      THEN calls'[c].pc = "updCompleted" /\ calls'[c].sid = id
                      ELSE Rejected(c, "err_completed")
        /\ calls[c].pc = "updCompleted" => Resumes(c, calls[c].sid)
        /\ calls[c].pc = "findActive" =>
              IF PausedRows # {}
              THEN calls'[c].pc = "updResume" /\ calls'[c].sid \in PausedRows
              ELSE IF OtherActiveRows # {} THEN Rejected(c, "err_exists")
              ELSE calls'[c].pc = "createSelect"
        /\ calls[c].pc = "updResume" => Resumes(c, calls[c].sid)
        /\ calls[c].pc = "createSelect" =>
              /\ calls'[c].pc = IF Len(sessions) = 0 THEN "createInsert" ELSE "createReset"
              /\ UNCHANGED sessions
        /\ calls[c].pc = "createReset" =>
              /\ sessions'[calls[c].sid] = NewRow
              /\ calls'[c].pc = "updDomain" /\ calls'[c].i = 0
        /\ calls[c].pc = "createInsert" =>
              IF Len(sessions) = 0
              THEN /\ sessions' = <<NewRow>>
                   /\ calls'[c].pc = "updDomain" /\ calls'[c].sid = 1 /\ calls'[c].i = 0
              ELSE Rejected(c, "err_db")
        /\ calls[c].pc = "updDomain" =>
              /\ Rejected(c, "ok")
              /\ domainStatus' = "running"
              /\ activeSessions' # 0
              /\ insts'[activeSessions'].session.id = calls[c].sid
              /\ insts'[activeSessions'].session.current_lead_index = calls[c].i
              /\ insts'[activeSessions'].leads = calls[c].leads
        /\ (calls'[c].pc = "done" /\ calls'[c].res # "ok") =>
              UNCHANGED <<sessions, domainStatus, activeSessions, insts>>]_vars

\* A start has resumed a row from a stored index above 0 and registered its
\* orchestrator, and a start was rejected for a non-terminal row.
C4_Witness ==
    /\ \E c \in Callers : Returned(c, "start") /\ calls[c].res = "ok"
                            /\ calls[c].i > 0 /\ domainStatus = "running"
    /\ \E c \in Callers : Returned(c, "start") /\ calls[c].res = "err_exists"

\* C7: a start that reads an empty lead list is rejected with the validation
\* error; no step of the call, up to the rejection, creates or modifies a session
\* row, changes the domain status or registers an orchestrator.
C7_NoLeads ==
    [][\A c \in Callers : StartSteps(c) =>
        /\ (calls[c].pc = "findLeads" /\ nLeads = 0) => Rejected(c, "err_noleads")
        /\ (Free(c) \/ calls[c].pc \in {"findDomain", "findLeads"}) =>
              UNCHANGED <<sessions, domainStatus, activeSessions, insts, flows>>]_vars

\* A start was rejected for the empty lead list, on tables that hold a row.
C7_Witness ==
    /\ \E c \in Callers : Returned(c, "start") /\ calls[c].res = "err_noleads"
    /\ nLeads = 0
    /\ sessions # <<>>

----------------------------------------------------------------------------
\* Failure of the outbound message (C8)

\* The outbound message of flow f fails in this step.
OutboundFails(f) == PGenFail(f) \/ PSendFail(f)

\* The steps of processNextLead.
ProcessPcs == {"p_gen", "p_send", "p_log", "p_upd"}

\* C8 as stated: whenever composing or sending the outbound message fails, the
\* send is not retried and the session is failed with the error message (the
\* write of failed to its row is under way), the domain set idle and the
\* orchestrator deregistered.
C8_AlwaysFailed ==
    [][\A f \in flows : OutboundFails(f) =>
          /\ \A g \in flows' \ flows : g.pc \notin ProcessPcs
          /\ \E g \in flows' : g.pc = "f_upd" /\ g.e = ErrSend /\ Sid(g.a) = Sid(f.a)]_vars

\* C8, amended: whenever composing or sending the outbound message fails, the
\* send is not retried and failSession is called with the error message; if an
\* orchestrator is registered then, failSession writes failed and the message to
\* that orchestrator's row, then sets the domain idle and deregisters it; if none
\* is registered (a pause or a stop has removed it) nothing is written.
C8_FailedIfRegistered ==
    [][\A f \in flows :
          /\ OutboundFails(f) =>
                /\ \A g \in flows' \ flows : g.pc \notin ProcessPcs
                /\ UNCHANGED <<inbox, nextMid, mailLog>>
                /\ IF activeSessions # 0
                   THEN \E g \in flows' : /\ g.pc = "f_upd" /\ g.e = ErrSend
                                           /\ g.a = activeSessions /\ g.o = f.o
                   ELSE /\ flows' = flows \ {f}
                        /\ UNCHANGED <<sessions, domainStatus, activeSessions, insts>>
          /\ FUpd(f) =>
                /\ sessions'[Sid(f.a)].status = "failed"
                /\ sessions'[Sid(f.a)].error_message = f.e
                /\ [f EXCEPT !.pc = "f_dom"] \in flows'
          /\ FDom(f) =>
                /\ domainStatus' = "idle"
                /\ activeSessions' = 0
                /\ f \notin flows']_vars

\* The outbound message to the second lead, sent from the delay timer, has failed:
\* the row is failed with the error message and failSession is about to set the
\* domain idle.
C8_Witness ==
    \E g \in flows :
        /\ g.pc = "f_dom" /\ g.o = "timer" /\ g.e = ErrSend
        /\ activeSessions = g.a
        /\ sessions[Sid(g.a)].status = "failed"
        /\ sessions[Sid(g.a)].error_message = ErrSend
        /\ sessions[Sid(g.a)].current_lead_index = 1

----------------------------------------------------------------------------
\* The happy path (C10)

Directions == <<"sent", "received", "replied", "received">>

\* The mail log of a session over n leads: the four rows of lead 0, of lead 1, ...
HappyLog(n) == [k \in 1..(4 * n) |-> <<Directions[((k - 1) % 4) + 1], (k - 1) \div 4>>]

\* The mail log of session sid, each row as <<direction, lead_index>>.
LogOf(sid) ==
    LET rows == SelectSeq(mailLog, LAMBDA r : r.session_id = sid)
    IN  [k \in 1..Len(rows) |-> <<rows[k].direction, rows[k].lead_index>>]

\* The session has ended completed.
Finished ==
    /\ activeSessions = 0
    /\ sessions # <<>>
    /\ sessions[1].status = "completed"

\* C10: on the happy path a started session eventually ends completed, and when
\* it has, over the N leads its orchestrator held, current_lead_index is N, its
\* mail log is sent, received, replied, received for lead 0, then lead 1, ...
\* (4N rows), the domain is idle and no orchestrator is registered.
C10_HappyPath ==
    /\ [](Finished =>
            /\ sessions[1].current_lead_index = insts[Len(insts)].leads
            /\ LogOf(1) = HappyLog(insts[Len(insts)].leads)
            /\ Len(mailLog) = 4 * insts[Len(insts)].leads
            /\ domainStatus = "idle")
    /\ (activeSessions # 0) ~> Finished

\* A session over MaxLeads leads has ended.
C10_Witness ==
    /\ Finished
    /\ sessions[1].current_lead_index = MaxLeads
    /\ Len(mailLog) = 4 * MaxLeads
    /\ Len(insts) = 1

----------------------------------------------------------------------------
\* Appended leads (C11)

\* The mail log only grows.
LogKept == Len(mailLog') >= Len(mailLog) /\ SubSeq(mailLog', 1, Len(mailLog)) = mailLog

\* The orchestrator registered resumes a session that was completed.
ResumedCompleted == Len(insts) > 1 /\ activeSessions = Len(insts)

\* C11: a start that finds today's row completed with index k resumes it when
\* leads.length > k: the same row (no row is added) is set to sending with
\* completed_at and error_message cleared and index k, the orchestrator registered
\* starts its cycle with the outbound message to lead k, the mail log is kept, and
\* the session completes again with the index at the new lead count and the four
\* log rows of every lead; when leads.length = k the start is rejected and nothing
\* changes.
C11_AppendedLeads ==
    /\ [][\A c \in Callers : StartSteps(c) =>
            /\ LogKept
            /\ (calls[c].pc = "findCompleted" /\ CompletedRows # {}) =>
                  \E id \in CompletedRows :
                      IF calls[c].leads > sessions[id].current_lead_index
                      THEN /\ calls'[c].pc = "updCompleted"
                           /\ calls'[c].sid = id
                           /\ calls'[c].i = sessions[id].current_lead_index
                           /\ UNCHANGED sessions
                      ELSE /\ Rejected(c, "err_completed")
                           /\ UNCHANGED <<sessions, domainStatus, mailLog, inbox,
                                          activeSessions, insts, timers, flows>>
            /\ calls[c].pc = "updCompleted" =>
                  /\ Len(sessions') = Len(sessions)
                  /\ sessions'[calls[c].sid] =
                        [status |-> "sending", current_lead_index |-> calls[c].i,
                         last_message_id |-> sessions[calls[c].sid].last_message_id,
                         error_message |-> "null", completed_at |-> "null"]
                  /\ calls'[c].pc = "updDomain" /\ calls'[c].i = calls[c].i
                  /\ calls'[c].sid = calls[c].sid
                  /\ calls[c].i < calls[c].leads
            /\ (calls[c].pc = "updDomain" /\ calls[c].i < calls[c].leads) =>
                  /\ activeSessions' = Len(insts')
                  /\ insts'[activeSessions'].session.id = calls[c].sid
                  /\ \E g \in flows' \ flows :
                        /\ g.pc = "p_gen" /\ g.a = activeSessions'
                        /\ g.i = calls[c].i /\ g.lead = calls[c].i]_vars
    /\ ResumedCompleted ~>
          (/\ Finished
           /\ sessions[1].current_lead_index = insts[Len(insts)].leads
           /\ LogOf(1) = HappyLog(insts[Len(insts)].leads))

\* A session completed over one lead was resumed after a lead was appended and has
\* completed again over both.
C11_Witness ==
    /\ Finished
    /\ Len(insts) = 2
    /\ insts[1].leads = 1 /\ insts[2].leads = 2
    /\ sessions[1].current_lead_index = 2
    /\ LogOf(1) = HappyLog(2)
    /\ \E c \in Callers : Returned(c, "start") /\ calls[c].res = "ok" /\ calls[c].i = 1

----------------------------------------------------------------------------
\* Resume after pause (C12)

\* Call c is the last control call made, and it has returned.
LastCall(c) ==
    /\ calls[c].pc = "done"
    /\ \A d \in Callers \ {c} : Free(d) /\ (calls[d].n = 0 \/ calls[d].n > calls[c].n)

\* A start called now resumes row sid: no orchestrator is registered, no row of
\* today is completed, and the row findActiveToday returns is sid, paused.
StartResumes(sid) ==
    /\ activeSessions = 0
    /\ domainExists /\ nLeads > 0
    /\ FindCompletedToday = 0
    /\ FindActiveToday = sid
    /\ sessions[sid].status = "paused"

\* C12: once pause has returned, and until the next control call, a start (or
\* resume) call is accepted and resumes the paused row: whatever point of the
\* per-lead cycle the session was paused at, a start called now resumes it.
C12_Resumable ==
    \A c \in Callers :
        (LastCall(c) /\ calls[c].op = "pause" /\ calls[c].res = "ok")
            => StartResumes(calls[c].sid)

----------------------------------------------------------------------------
\* A row left in waiting_reply or sending (C13)

\* Today's rows in waiting_reply or sending.
LeftRows == {id \in 1..Len(sessions) : sessions[id].status \in {"waiting_reply", "sending"}}

\* C13: a start that finds today's row in waiting_reply or sending, with no
\* orchestrator registered and no other control call in flight, is not rejected:
\* it goes on to create-or-reset, which resets the row.
C13_Restartable ==
    [][\A c \in Callers :
          (/\ StartSteps(c)
           /\ calls[c].pc = "findActive"
           /\ LeftRows # {}
           /\ activeSessions = 0
           /\ \A d \in Callers \ {c} : Free(d))
              => /\ calls'[c].pc # "done"
                 /\ calls'[c].pc = "createSelect"]_vars

----------------------------------------------------------------------------
\* Completed rows (C14)

\* C14: every step leaves each completed row with completed_at set; the step that
\* writes completed (completeSession of orchestrator f.a) leaves the row with
\* current_lead_index equal to the number of leads that orchestrator holds; and
\* no step changes the index of a row that stays completed.
C14_CompletedRow ==
    [][/\ \A id \in 1..Len(sessions') :
            sessions'[id].status = "completed" => sessions'[id].completed_at = "set"
       /\ \A f \in flows : CUpd(f) =>
            /\ sessions'[Sid(f.a)].status = "completed"
            /\ sessions'[Sid(f.a)].current_lead_index = insts[f.a].leads
       /\ \A id \in 1..Len(sessions) :
            (sessions[id].status = "completed" /\ sessions'[id].status = "completed")
                => sessions'[id].current_lead_index = sessions[id].current_lead_index]_vars

----------------------------------------------------------------------------
\* Order of the mail log (C15)

\* The rows of the mail log that belong to session sid, by position.
RowsOf(sid) == {k \in 1..Len(mailLog) : mailLog[k].session_id = sid}

LeadSide(r) == r.direction = "received" /\ r.from_email = DomainAddr
DomainSide(r) == r.direction = "received" /\ r.to_email = DomainAddr

\* Row k of session sid follows a row of the same lead_index that satisfies P.
Follows(sid, k, P(_)) ==
    \E j \in RowsOf(sid) : j < k /\ mailLog[j].lead_index = mailLog[k].lead_index
                                  /\ P(mailLog[j])

IsSent(r) == r.direction = "sent"
IsReplied(r) == r.direction = "replied"

\* C15: in the mail log of a session, the rows of a lead_index come in the order
\* sent, received (lead side), replied, received (domain side): a lead-side
\* received row follows a sent row of its lead_index, a replied row a lead-side
\* received row, a domain-side received row a replied row; and no row of lead i
\* is appended after a sent row of lead i+1.
C15_LogOrder ==
    \A sid \in 1..Len(sessions) : \A k \in RowsOf(sid) :
        /\ LeadSide(mailLog[k]) => Follows(sid, k, IsSent)
        /\ IsReplied(mailLog[k]) => Follows(sid, k, LeadSide)
        /\ DomainSide(mailLog[k]) => Follows(sid, k, IsReplied)
        /\ \A j \in RowsOf(sid) :
              j < k => ~(IsSent(mailLog[j])
                          /\ mailLog[j].lead_index = mailLog[k].lead_index + 1)

----------------------------------------------------------------------------
\* One sent row per lead (C16)

\* The sent rows of session sid, and the lead indexes they carry.
SentRows(sid) == {k \in RowsOf(sid) : IsSent(mailLog[k])}
SentLeads(sid) == {mailLog[k].lead_index : k \in SentRows(sid)}

\* C16: in every session the number of sent rows of the mail log equals the number
\* of distinct lead indexes the session has sent to: no lead index has two sent
\* rows, also after pause and resume, timeout skips and appended-lead restarts.
C16_OneSentPerLead ==
    \A sid \in 1..Len(sessions) :
        Cardinality(SentRows(sid)) = Cardinality(SentLeads(sid))

----------------------------------------------------------------------------
\* Replies answer a logged message (C17)

\* C17: every replied row of the mail log has an in_reply_to, and a sent row of
\* the same session carries that value as its message_id.
C17_ReplyAnswersSent ==
    \A k \in 1..Len(mailLog) :
        IsReplied(mailLog[k]) =>
            /\ mailLog[k].in_reply_to # NullMid
            /\ \E j \in RowsOf(mailLog[k].session_id) :
                  /\ IsSent(mailLog[j])
                  /\ mailLog[j].message_id = mailLog[k].in_reply_to

----------------------------------------------------------------------------
\* The next lead waits for the reply (C18)

\* The first sent row of session sid for lead index li; 0 if there is none.
FirstSent(sid, li) ==
    LET hit == {k \in SentRows(sid) : mailLog[k].lead_index = li}
    IN  IF hit = {} THEN 0 ELSE CHOOSE k \in hit : \A x \in hit : k <= x

\* A domain-side received row of lead index li precedes row k of session sid.
ReplyLogged(sid, li, k) ==
    \E j \in RowsOf(sid) : j < k /\ DomainSide(mailLog[j]) /\ mailLog[j].lead_index = li

\* The lead indexes of session sid whose successor was sent to before a reply of
\* theirs was logged.
Unanswered(sid) ==
    {li \in 0..(MaxLeads - 1) :
        FirstSent(sid, li + 1) # 0 /\ ~ReplyLogged(sid, li, FirstSent(sid, li + 1))}

\* Wait-budget timers that have fired.
TimeoutsFired == MaxTimeouts - timeoutsLeft

RepliesBefore(sid, k) == {j \in RowsOf(sid) : j < k /\ DomainSide(mailLog[j])}

----------------------------------------------------------------------------
\* One row per domain and day (C19)

\* C19: the session store holds at most one row of the domain for today, also
\* when two calls of create overlap: both may find no row and both reach the
\* INSERT, and the second INSERT is rejected by unique_active_session.
C19_OneRowPerDay == Len(sessions) <= 1

\* Two start calls overlapped, one inserted the row, the INSERT of the other was
\* rejected.
C19_Witness ==
    /\ Len(sessions) = 1
    /\ \E c, d \in Callers :
          /\ c # d
          /\ Concurrent(c, d)
          /\ Returned(c, "start") /\ calls[c].res = "err_db"
          /\ calls[d].op = "start" /\ calls[d].sid = 1
          /\ calls[d].pc \in {"updDomain", "done"}

----------------------------------------------------------------------------
\* create called again on the same day (C20)

\* Call c is in sessionRepo.create and leaves it with a row in this step.
CreateReturns(c) ==
    /\ calls[c].pc \in {"createReset", "createInsert"}
    /\ calls'[c].pc = "updDomain"

----------------------------------------------------------------------------
\* pause after pause, stop after stop (C21)

\* This step is taken by call c, a call of op (the step that begins it included).
StepOf(c, op) == calls'[c] # calls[c] /\ calls'[c].op = op

\* Call c begins in this step.
Begins(c, op) == StepOf(c, op) /\ callsLeft' < callsLeft

RowIs(status) == sessions # <<>> /\ \A id \in 1..Len(sessions) : sessions[id].status = status

\* The steps of the second call themselves (holds): a step of a pause call taken
\* while the row is paused leaves the row as it is, and a pause called with no orchestrator registered is rejected and changes
\* nothing; a stop called on a failed row with no orchestrator registered finds
\* nothing to stop, changes nothing and returns success.
SecondCallWritesNothing ==
    [][\A c \in Callers :
          /\ (StepOf(c, "pause") /\ RowIs("paused")) => UNCHANGED sessions
          /\ (Begins(c, "pause") /\ activeSessions = 0)
                => /\ calls'[c].pc = "done" /\ calls'[c].res = "err_noactive"
                   /\ UNCHANGED <<sessions, domainStatus, mailLog, activeSessions,
                                  insts, timers, flows>>
          /\ (Begins(c, "stop") /\ activeSessions = 0) => calls'[c].pc = "stopFind"
          /\ (StepOf(c, "stop") /\ RowIs("failed")
                  /\ (Begins(c, "stop") \/ calls[c].pc = "stopFind")
                  /\ activeSessions = 0)
                => /\ UNCHANGED <<sessions, domainStatus, mailLog, activeSessions,
                                  insts, timers, flows>>
                   /\ calls[c].pc = "stopFind"
                         => calls'[c].pc = "done" /\ calls'[c].res = "ok"
      ]_vars

\* C21 as stated: a pause called after the pause before it has returned (the last
\* orchestrator built is paused and none is registered) returns with the row as
\* that pause left it: its status is paused.
C21_PauseTwice ==
    [][\A c \in Callers :
          (/\ Begins(c, "pause") /\ activeSessions = 0
           /\ insts # <<>> /\ insts[Len(insts)].isPaused)
              => (calls'[c].pc = "done" => RowIs("paused")')
      ]_vars

----------------------------------------------------------------------------
\* The domain status mirrors the registry (C22)

\* No control call and no step of an orchestrator is in flight.
Quiescent == flows = {} /\ \A c \in Callers : Free(c)

\* C22: whenever nothing is in flight, the domain status is running exactly when
\* an orchestrator is registered; it is idle when the row is completed or failed
\* and paused when the row is paused.
C22_StatusMirrors ==
    Quiescent
        => /\ domainStatus = "running" <=> activeSessions # 0
           /\ (RowIs("completed") \/ RowIs("failed")) => domainStatus = "idle"
           /\ RowIs("paused") => domainStatus = "paused"

----------------------------------------------------------------------------
\* completedToday (C23)

\* A completed row of today exists and holds an index not below the lead count.
TrulyCompleted ==
    /\ FindCompletedToday # 0
    /\ sessions[FindCompletedToday].current_lead_index >= nLeads

\* C23: when the status route answers, completedToday is true exactly when a
\* completed row of today exists whose index is not smaller than the number of
\* leads; and a start call that finds a completed row whose index is smaller than
\* the number of leads it read is not rejected: it goes on to resume the row.
C23_CompletedToday ==
    [][\A c \in Callers :
          /\ Returns(c, "status")
                => /\ calls'[c].res = "true" <=> TrulyCompleted
                   /\ calls'[c].res = "false" <=> ~TrulyCompleted
                   /\ UNCHANGED <<sessions, domainStatus, activeSessions, nLeads>>
          /\ (calls[c].op = "start" /\ calls[c].pc = "findCompleted"
                  /\ calls'[c].pc # "findCompleted"
                  /\ FindCompletedToday # 0
                  /\ sessions[FindCompletedToday].current_lead_index < calls[c].leads)
                => /\ calls'[c].pc = "updCompleted"
                   /\ calls'[c].sid = FindCompletedToday
      ]_vars

\* The route has answered false on a completed row to which a lead was appended.
C23_Witness ==
    \E c \in Callers :
        /\ Returned(c, "status") /\ calls[c].res = "false"
        /\ calls[c].sid # 0
        /\ FindCompletedToday = calls[c].sid
        /\ sessions[calls[c].sid].current_lead_index = calls[c].i
        /\ calls[c].i < nLeads

----------------------------------------------------------------------------
\* Graceful shutdown (C24)

\* C24: when shutdownAll returns, the registry is empty, and if an orchestrator
\* was registered when the signal arrived its session row has status paused and
\* the domain status is paused.
C24_ShutdownPauses ==
    [][\A c \in Callers :
          Returns(c, "shutdown")
              => /\ activeSessions' = 0
                 /\ calls'[c].sid # 0
                       => /\ sessions'[calls'[c].sid].status = "paused"
                          /\ domainStatus' = "paused"
      ]_vars

----------------------------------------------------------------------------
\* Timeout skip (C25)

\* A wait timer fires in this step.
TimeoutFires == timeoutsLeft' < timeoutsLeft

\* skipToNextLead writes the row in this step, for flow f.
SkipWrites(f) == f \in flows /\ f.pc = "k_upd" /\ f \notin flows'

\* The steps of skipToNextLead taken one at a time: the firing disconnects both
\* listeners and goes on to the write of index + 1; the write sets status sending
\* and the index and then enters completeSession or creates the delay timer.
SkipStepwise ==
    [][/\ (TimeoutFires /\ activeSessions # 0 /\ ~insts[activeSessions].isPaused)
            => /\ insts'[activeSessions].leadImapListener = NoListener
               /\ insts'[activeSessions].domainImapListener = NoListener
               /\ \E f \in flows' :
                     /\ f.pc = "k_upd" /\ f.a = activeSessions
                     /\ f.i = insts[activeSessions].session.current_lead_index + 1
               /\ UNCHANGED <<sessions, mailLog, timers>>
       /\ \A f \in flows :
             SkipWrites(f)
               => /\ sessions'[Sid(f.a)].status = "sending"
                  /\ sessions'[Sid(f.a)].current_lead_index = f.i
                  /\ insts'[f.a].session.current_lead_index = f.i
                  /\ IF f.i >= insts[f.a].leads
                     THEN /\ timers' = timers
                          /\ activeSessions # 0
                                => \E g \in flows' :
                                      g.pc = "c_upd" /\ g.a = activeSessions
                     ELSE timers' = timers \cup {Timer(f.a, "next", 0, NullMid)}
      ]_vars

\* One orchestrator over one lead, one wait timer fired, the index moved past the
\* lead, and nothing is in flight or pending any more.
EndedAfterTimeout ==
    /\ Len(insts) = 1 /\ insts[1].leads = 1
    /\ TimeoutsFired = 1
    /\ sessions[1].current_lead_index >= 1
    /\ Quiescent /\ timers = {}

\* C25 as stated: a session over one lead whose wait timer fired for the current
\* lead (orchestrator registered, not paused) has ended completed once the skip
\* and everything else in flight has run: at index 1 = lead count the session
\* completes.
C25_TimeoutSkip ==
    EndedAfterTimeout => Finished

----------------------------------------------------------------------------
\* One outstanding next step (C26)

\* The steps of sendLeadReply.
ReplyPcs == {"r_gen", "r_send", "r_log"}

\* The executions of processNextLead and sendLeadReply suspended at an await.
ExecutingSteps == {f \in flows : f.pc \in ProcessPcs \cup ReplyPcs}

\* The subscriptions waiting for their message: connected, wait timer running.
ArmedSubscriptions ==
    {<<a, "lead">> : a \in {b \in 1..Len(insts) : insts[b].leadImapListener.st = "armed"}}
    \cup
    {<<a, "domain">> : a \in {b \in 1..Len(insts) : insts[b].domainImapListener.st = "armed"}}

OutstandingSteps ==
    Cardinality(ExecutingSteps) + Cardinality(timers) + Cardinality(ArmedSubscriptions)

\* C26 as stated: at any moment at most one of an executing processNextLead or
\* sendLeadReply, a pending delay timer and an armed subscription exists for the
\* domain.
C26_OneNextStep ==
    OutstandingSteps <= 1

----------------------------------------------------------------------------
\* Nothing left armed or pending at the return of pause and stop (C27)

\* Object a holds a connected subscription or a pending delay timer.
LeftBehind(is, ts, a) ==
    \/ is[a].leadImapListener.st # "none"
    \/ is[a].domainImapListener.st # "none"
    \/ \E t \in ts : t.a = a

\* C27 as stated: when a pause or a stop that found an orchestrator returns, no
\* delay timer created by that orchestrator is pending and no subscription
\* created by it is connected.
C27_NothingLeftBehind ==
    [][\A c \in Callers :
          ((Returns(c, "pause") \/ Returns(c, "stop")) /\ calls[c].a # 0)
              => ~LeftBehind(insts', timers', calls[c].a)]_vars

----------------------------------------------------------------------------
\* Pause during a send in flight (C28)

\* Flow f, of a paused orchestrator, leaves its await at pc in this step.
PausedFlowSteps(f, pc) ==
    /\ f \in flows /\ f.pc = pc /\ f \notin flows'
    /\ insts[f.a].isPaused

\* C28 as stated: once pause has been called on the orchestrator of a send in
\* flight, the send still completes and its sent row is appended to the mail log,
\* but the step after it writes no session status and arms no subscription.
C28_PausedSendStops ==
    [][\A f \in flows :
          /\ PausedFlowSteps(f, "p_log")
               => /\ Len(mailLog') = Len(mailLog) + 1
                  /\ IsSent(mailLog'[Len(mailLog')])
                  /\ mailLog'[Len(mailLog')].lead_index = f.i
          /\ PausedFlowSteps(f, "p_upd")
               => /\ sessions' = sessions
                  /\ \A a \in 1..Len(insts) :
                        insts'[a].leadImapListener = insts[a].leadImapListener
      ]_vars

----------------------------------------------------------------------------
\* Callbacks of a paused, stopped or replaced orchestrator (C29)

\* Object a has been paused, or is not the one registered for the domain.
Stale(a) == insts[a].isPaused \/ activeSessions # a

\* The awaits of the subscription callbacks: the arrival callbacks of the lead
\* listener and of the domain listener, and skipToNextLead.
CallbackPcs == {"le_log", "de_log", "de_upd", "k_upd"}

\* This step leaves the tables and the mailboxes alone and touches no object but a.
NoPersistentWork(a) ==
    /\ UNCHANGED <<sessions, mailLog, inbox, domainStatus>>
    /\ \A b \in 1..Len(insts) : b # a => insts'[b] = insts[b]

\* C29 as stated: a subscription callback that goes on for an orchestrator that
\* is paused or no longer registered, and a delay timer of such an orchestrator
\* that fires, appends no mail-log row, writes no session row, sends no mail and
\* leaves every other orchestrator object as it is; the timer starts no step.
C29_StaleCallbacksIdle ==
    [][/\ \A f \in flows :
            (f.pc \in CallbackPcs /\ f \notin flows' /\ Stale(f.a))
                => NoPersistentWork(f.a)
       /\ \A t \in timers :
            (timers' = timers \ {t} /\ calls' = calls /\ Stale(t.a))
                => NoPersistentWork(t.a) /\ flows' \subseteq flows
      ]_vars

----------------------------------------------------------------------------
\* A second delivery (C30)

\* The session of flow f holds a received row of f's lead_index on the side of
\* f's subscription.
Accepted(f) ==
    \E k \in RowsOf(Sid(f.a)) :
        /\ mailLog[k].lead_index = f.i
        /\ IF f.pc = "le_log" THEN LeadSide(mailLog[k]) ELSE DomainSide(mailLog[k])

\* The arrival callback f goes on after its subscription has accepted a message
\* and been disconnected: f is the callback of a second delivery.
SecondDelivery(f) ==
    /\ f \in flows /\ f.pc \in {"le_log", "de_log"} /\ f \notin flows'
    /\ Accepted(f)
    /\ IF f.pc = "le_log" THEN insts[f.a].leadImapListener.st = "none"
                          ELSE insts[f.a].domainImapListener.st = "none"

\* C30 as stated: the callback of a second delivery appends no received row,
\* creates no reply timer and starts no write of the index.
C30_SecondDeliveryIdle ==
    [][\A f \in flows :
          SecondDelivery(f)
              => /\ mailLog' = mailLog
                 /\ timers' = timers
                 /\ flows' \subseteq flows]_vars

----------------------------------------------------------------------------
\* onTimeout at most once (C31)

\* C31 as stated: over the life of an ImapListener onTimeout is called at most
\* once, by the wait timer or by the exhaustion of the reconnects, and once it has
\* been called no message is handed to onEmail any more.
C31_TimeoutOnce ==
    /\ [](listener.timeouts <= 1)
    /\ [][listener.timeouts >= 1 => listener'.delivered = listener.delivered]_vars

----------------------------------------------------------------------------
\* Reconnects (C32)

\* An error, end or close event is handled in this step.
EventStep ==
    /\ listener.conn # "none"
    /\ listener'.faults < listener.faults
    /\ ~(listener.conn = "opening" /\ listener'.conn = "unopened")

\* The steps of safeReconnect: an event on a listener that is not destroyed
\* raises the attempt counter by one and either schedules one reconnect with
\* delay 5 s x attempt or, past MAX_RECONNECT_ATTEMPTS, calls onTimeout and
\* schedules nothing; ready resets the counter; nothing else schedules a
\* reconnect, and between two ready events at most MAX_RECONNECT_ATTEMPTS
\* reconnects are scheduled.
ReconnectStepwise ==
    /\ [](listener.conn # "none" => listener.scheduled <= MAX_RECONNECT_ATTEMPTS)
    /\ [][/\ (EventStep /\ ~listener.isDestroyed)
               => /\ listener'.reconnectAttempts = listener.reconnectAttempts + 1
                  /\ IF listener'.reconnectAttempts <= MAX_RECONNECT_ATTEMPTS
                     THEN /\ listener'.reconnects =
                                 Append(listener.reconnects,
                                        5000 * listener'.reconnectAttempts)
                          /\ listener'.timeouts = listener.timeouts
                     ELSE /\ listener'.reconnects = listener.reconnects
                          /\ listener'.timeouts = listener.timeouts + 1
          /\ (listener.conn = "connecting" /\ listener'.conn = "opening")
               => listener'.reconnectAttempts = 0
          /\ (listener.conn # "none"
                /\ Len(listener'.reconnects) > Len(listener.reconnects))
               => EventStep /\ listener.reconnectAttempts < MAX_RECONNECT_ATTEMPTS
         ]_vars

\* C32 as stated: between two successful connections of a listener at most 5
\* reconnect attempts are made (connect() is called at most 5 times after a
\* ready event before the next one).
C32_ReconnectBudget ==
    listener.conn # "none" => listener.connects <= MAX_RECONNECT_ATTEMPTS

----------------------------------------------------------------------------
\* One subscription per side (C33)

\* The orchestrator objects, registered or not, whose lead-side (domain-side)
\* listener is connected.
LeadConnected == {a \in 1..Len(insts) : insts[a].leadImapListener.st # "none"}
DomainConnected == {a \in 1..Len(insts) : insts[a].domainImapListener.st # "none"}

\* C33 as stated: over all orchestrator objects created for the domain, at most
\* one lead-side listener and at most one domain-side listener is connected.
C33_OnePerSide ==
    /\ Cardinality(LeadConnected) <= 1
    /\ Cardinality(DomainConnected) <= 1

----------------------------------------------------------------------------
\* The sender check of the arrival callbacks (onEmail of both listeners)

\* String.prototype.toLowerCase: the capitals become small letters.
RECURSIVE ToLowerCase(_)
ToLowerCase(t) ==
    IF t = <<>> THEN <<>>
    ELSE <<(IF Head(t) = "D" THEN "d" ELSE IF Head(t) = "L" THEN "l" ELSE Head(t))>>
            \o ToLowerCase(Tail(t))

\* replace(/[<>\s]/g, '')
RECURSIVE Strip(_)
Strip(t) ==
    IF t = <<>> THEN <<>>
    ELSE (IF Head(t) \in {"<", ">", " "} THEN <<>> ELSE <<Head(t)>>) \o Strip(Tail(t))

\* (x || '').toLowerCase().replace(/[<>\s]/g, '')
Normalize(t) == Strip(ToLowerCase(t))

\* The texts of the accounts' addresses as stored: the domain's, and lead j's.
DomainText == <<"D">>
LeadText(j) == [k \in 1..(j + 1) |-> "L"]

\* The From texts a message of another sender can carry, the empty one
\* included: texts of a capital and a small letter of the domain's address, a
\* letter of the leads' addresses, an angle bracket and a blank.
AddrTexts == UNION {[1..n -> {"D", "d", "L", "<", " "}] : n \in 0..MaxAddrLen}

\* The From text of a message in a mailbox.
FromText(from) ==
    IF from[1] = "text" THEN from[2]
    ELSE IF from = DomainAddr THEN DomainText
    ELSE LeadText(from[2])

\* msg was written by another sender.
Foreign(msg) == msg.from[1] = "text"

FromMatches_mutant(from, expected) ==
    Normalize(from) = <<>> \/ Normalize(from) = Normalize(expected)

\* if (fromAddr !== domainAddr) return;  (and the same test against the lead)
FromMatches(from, expected) == Normalize(from) = Normalize(expected)

\* A message of another sender reaches a mailbox a connected listener watches.
OtherMail ==
    /\ Cardinality({msg \in inbox : Foreign(msg)}) < MaxForeign
    /\ \E a \in 1..Len(insts) :
        \/ /\ insts[a].leadImapListener.st # "none"
           /\ \E t \in {x \in AddrTexts : Normalize(x) # Normalize(DomainText)} :
                inbox' = inbox \cup {Msg(LeadAddr(insts[a].leadImapListener.lead),
                                         <<"text", t>>, <<"mid", -1>>, NullMid)}
        \/ /\ insts[a].domainImapListener.st # "none"
           /\ \E t \in {x \in AddrTexts :
                         Normalize(x) # Normalize(LeadText(insts[a].domainImapListener.lead))} :
                inbox' = inbox \cup {Msg(DomainAddr, <<"text", t>>, <<"mid", -1>>, NullMid)}
    /\ inbox' # inbox
    /\ UNCHANGED <<domainExists, nLeads, sessions, domainStatus, mailLog,
                   nextMid, sendsLeft, activeSessions, insts, timers, flows, calls,
                   callsLeft, timeoutsLeft, maxInFlight, listener, draw>>

\* The lead-side listener of a fetches a message of another sender (marking it
\* seen) and hands it to onEmail: return on a sender mismatch, else as DeliverLead.
OnLeadOther(a) ==
    /\ insts[a].leadImapListener.st # "none"
    /\ \E msg \in inbox :
        /\ Foreign(msg)
        /\ msg.to = LeadAddr(insts[a].leadImapListener.lead)
        /\ inbox' = inbox \ {msg}
        /\ flows' = flows \cup
              (IF FromMatches(FromText(msg.from), DomainText)
               THEN {Flow("le_log", a, insts[a].session.current_lead_index,
                          insts[a].leadImapListener.lead, msg.mid, NullMid,
                          "null", "none")}
               ELSE {})
    /\ UNCHANGED <<domainExists, nLeads, sessions, domainStatus, mailLog,
                   nextMid, sendsLeft, activeSessions, insts, timers, calls,
                   callsLeft, timeoutsLeft, maxInFlight, listener, draw>>

\* The domain-side listener of a fetches a message of another sender.
OnDomainOther(a) ==
    /\ insts[a].domainImapListener.st # "none"
    /\ \E msg \in inbox :
        /\ Foreign(msg)
        /\ msg.to = DomainAddr
        /\ inbox' = inbox \ {msg}
        /\ flows' = flows \cup
              (IF FromMatches(FromText(msg.from),
                              LeadText(insts[a].domainImapListener.lead))
               THEN {Flow("de_log", a, insts[a].session.current_lead_index,
                          insts[a].domainImapListener.lead, msg.mid, msg.irt,
                          "null", "none")}
               ELSE {})
    /\ UNCHANGED <<domainExists, nLeads, sessions, domainStatus, mailLog,
                   nextMid, sendsLeft, activeSessions, insts, timers, calls,
                   callsLeft, timeoutsLeft, maxInFlight, listener, draw>>

InitMail ==
    /\ Boot({})
    /\ callsLeft = MaxMailCalls
    /\ sendsLeft = MaxMailSends
    /\ timeoutsLeft = 0
    /\ maxInFlight = 1

\* One started session with other senders writing to the watched mailboxes.
NextMail ==
    \/ AddLead
    \/ \E c \in Callers : HappyStartStep(c)
    \/ EventLoop
    \/ OtherMail
    \/ \E a \in 1..Len(insts) : OnLeadOther(a)
    \/ \E a \in 1..Len(insts) : OnDomainOther(a)

SpecMail == InitMail /\ [][NextMail]_vars

----------------------------------------------------------------------------
\* Messages of other senders are ignored (C34)

\* The sender of msg, normalised, is not the address the watching side expects:
\* the domain's on a lead's mailbox, the awaited lead's on the domain's mailbox.
Mismatch(msg) ==
    IF msg.to = DomainAddr
    THEN \A a \in 1..Len(insts) :
            insts[a].domainImapListener.st # "none"
               => Normalize(FromText(msg.from))
                    # Normalize(LeadText(insts[a].domainImapListener.lead))
    ELSE Normalize(FromText(msg.from)) # Normalize(DomainText)

\* C34: a step that hands over (marks seen) a message whose normalised sender
\* differs from the expected address appends no mail-log entry, leaves the
\* session rows alone, creates no timer, starts no continuation and leaves every
\* subscription as it was.
C34_MismatchIgnored ==
    [][\A msg \in inbox :
          (Foreign(msg) /\ msg \notin inbox' /\ Mismatch(msg))
             => UNCHANGED <<mailLog, sessions, domainStatus, timers, insts, flows>>
      ]_vars

\* A message whose sender differs only after normalisation from nothing the
\* lead side expects waits unseen in the mailbox of the lead the registered
\* orchestrator is listening for.
C34_Witness ==
    /\ activeSessions # 0
    /\ insts[activeSessions].leadImapListener.st = "armed"
    /\ \E msg \in inbox :
          /\ Foreign(msg)
          /\ msg.to = LeadAddr(insts[activeSessions].leadImapListener.lead)
          /\ FromText(msg.from) # <<>>
          /\ Mismatch(msg)

----------------------------------------------------------------------------
\* Sent messages are logged (C35)

\* The Message-IDs the SMTP server has acknowledged so far.
SentMids == {Mid(n) : n \in 1..(nextMid - 1)}

\* Message m has its mail-log entry: direction sent for a message of the
\* domain, replied for a message of a lead.
Logged(m) ==
    \E k \in 1..Len(mailLog) :
        /\ mailLog[k].message_id = m
        /\ \/ mailLog[k].direction = "sent" /\ mailLog[k].from_email = DomainAddr
           \/ mailLog[k].direction = "replied" /\ mailLog[k].to_email = DomainAddr

\* The step that sent m is at its next await, the log write.
LogPending(m) ==
    \E f \in flows : \/ f.pc = "p_log" /\ f.m = m
                     \/ f.pc = "r_log" /\ f.m2 = m

----------------------------------------------------------------------------
\* randomDelay and the reply delay

\* config.warmup as shipped
minDelayMs == 3 * 60 * 1000
maxDelayMs == 5 * 60 * 1000

randomDelay_mutant(mn, mx, k) ==
    ((2 * k * (mx - mn + 1) + RandDen) \div (2 * RandDen)) + mn

\* Math.floor(Math.random() * (maxDelayMs - minDelayMs + 1)) + minDelayMs, with
\* Math.random() = k / RandDen
randomDelay(mn, mx, k) == ((k * (mx - mn + 1)) \div RandDen) + mn

\* Math.floor(Math.random() * (300000 - 180000 + 1)) + 180000
replyDelay(k) == ((k * (300000 - 180000 + 1)) \div RandDen) + 180000

\* The values of config.warmup tried are the shipped pair and every small pair
\* with min <= max; the values of Math.random() are k / RandDen, 0 <= k < RandDen.
InitDelay ==
    /\ Elsewhere
    /\ listener = NoImap
    /\ draw \in {[min |-> c[1], max |-> c[2], r |-> k, out |-> 0, called |-> "no"] :
                    c \in {<<minDelayMs, maxDelayMs>>}
                            \cup {x \in (0..MaxDelayMs) \X (0..MaxDelayMs) : x[1] <= x[2]},
                    k \in 0..(RandDen - 1)}

\* randomDelay() is called for the timer before the next lead.
DrawNext ==
    /\ draw.called = "no"
    /\ draw' = [draw EXCEPT !.out = randomDelay(draw.min, draw.max, draw.r),
                            !.called = "next"]
    /\ UNCHANGED <<domainExists, nLeads, sessions, domainStatus, mailLog, inbox,
                   nextMid, sendsLeft, activeSessions, insts, timers, flows, calls,
                   callsLeft, timeoutsLeft, maxInFlight, listener>>

\* The reply delay is drawn in the lead-side arrival callback.
DrawReply ==
    /\ draw.called = "no"
    /\ draw' = [draw EXCEPT !.out = replyDelay(draw.r), !.called = "reply"]
    /\ UNCHANGED <<domainExists, nLeads, sessions, domainStatus, mailLog, inbox,
                   nextMid, sendsLeft, activeSessions, insts, timers, flows, calls,
                   callsLeft, timeoutsLeft, maxInFlight, listener>>

NextDelay == DrawNext \/ DrawReply

SpecDelay == InitDelay /\ [][NextDelay]_vars

----------------------------------------------------------------------------
\* Delays lie in their intervals (C36)

\* C36: every delay drawn by randomDelay lies in [minDelayMs, maxDelayMs] and
\* equals minDelayMs when the two are equal; every reply delay lies in
\* [180000, 300000].
C36_DelayInRange ==
    /\ draw.called = "next"
         => /\ draw.min <= draw.out /\ draw.out <= draw.max
            /\ draw.min = draw.max => draw.out = draw.min
    /\ draw.called = "reply" => 180000 <= draw.out /\ draw.out <= 300000

\* The largest random value was drawn for an interval of more than one value
\* and the delay is the upper end of the interval.
C36_Witness ==
    /\ draw.called = "next"
    /\ draw.min < draw.max
    /\ draw.r = RandDen - 1
    /\ draw.out = draw.max

----------------------------------------------------------------------------
\* No lead is passed over (C37)

\* Lead index j of session sid has a sent entry in the mail log.
SentTo(sid, j) ==
    \E k \in 1..Len(mailLog) :
        /\ mailLog[k].session_id = sid
        /\ mailLog[k].direction = "sent"
        /\ mailLog[k].lead_index = j

\* C37: whenever the stored current_lead_index of a session is k, every lead
\* index below k has at least one sent mail-log entry of that session.
C37_NoLeadPassedOver ==
    \A sid \in 1..Len(sessions) :
        \A j \in 0..(sessions[sid].current_lead_index - 1) : SentTo(sid, j)

----------------------------------------------------------------------------
\* Indexes stay inside the lead snapshot (C38)

\* The orchestrator objects created for session sid.
Writers(sid) == {a \in 1..Len(insts) : Sid(a) = sid}

\* The longest lead snapshot among them; snapshots of one session only grow,
\* so this is at least the snapshot of the orchestrator that wrote last.
SnapshotLen(sid) ==
    CHOOSE n \in {insts[a].leads : a \in Writers(sid)} :
        \A a \in Writers(sid) : insts[a].leads <= n

\* The stored index of every session an orchestrator has worked on is at most
\* the length of the snapshot.
IndexInSnapshot ==
    \A sid \in 1..Len(sessions) :
        Writers(sid) # {} => sessions[sid].current_lead_index <= SnapshotLen(sid)

\* Every sent or replied entry has a lead_index below the snapshot length and
\* names the lead at that index: as recipient when sent, as sender when replied.
EntriesNameTheirLead ==
    \A k \in 1..Len(mailLog) :
        LET e == mailLog[k] IN
        /\ e.direction \in {"sent", "replied"} => e.lead_index < SnapshotLen(e.session_id)
        /\ e.direction = "sent" => e.to_email = LeadAddr(e.lead_index)
        /\ e.direction = "replied" => e.from_email = LeadAddr(e.lead_index)

\* C38: a session's current_lead_index is at most the length of the lead
\* snapshot of the orchestrator that wrote it, and every sent or replied
\* mail-log entry has a lead_index below that length and names the lead at that
\* position as its recipient or sender.
C38_IndexWithinSnapshot == IndexInSnapshot /\ EntriesNameTheirLead

----------------------------------------------------------------------------
\* A registered orchestrator always has a way forward (C39)

\* The registered orchestrator has a delay timer pending or a subscription
\* connected whose arrival or wait timeout will call it back.
HasWayForward ==
    \/ TimersOf(activeSessions) # {}
    \/ insts[activeSessions].leadImapListener.st = "armed"
    \/ insts[activeSessions].domainImapListener.st = "armed"

\* C39: whenever an orchestrator is registered and not paused and none of its
\* steps (and no control call) is executing, it has a pending delay timer or an
\* armed subscription, so that it goes on to leave the registry as completed,
\* failed or paused.
C39_NeverStuck ==
    (activeSessions # 0 /\ ~insts[activeSessions].isPaused /\ Quiescent)
        => HasWayForward

\* A listener whose connection is ready and that is neither parsing nor handing
\* over a message has its wait timer running or a reconnect scheduled.
ListenerWillCallBack ==
    (listener.conn \in {"open", "unopened"} /\ ~listener.isDestroyed
        /\ listener.parsing = 0 /\ listener.accepting = 0 /\ listener.unseen = 0)
        => (listener.waitTimer \/ listener.reconnects # <<>>)

----------------------------------------------------------------------------
\* Accepting and skipping exclude each other (C40)

\* Orchestrator a goes on with the reply of a lead its index has moved past:
\* the lead was accepted for and skipped.
RepliesToSkipped(a) ==
    \/ \E t \in timers :
          t.a = a /\ t.kind = "reply" /\ t.lead < insts[a].session.current_lead_index
    \/ \E f \in flows :
          f.a = a /\ f.pc \in ReplyPcs /\ f.lead < insts[a].session.current_lead_index

\* The leads of session sid a message was sent to.
LeadsSent(sid) == {j \in 0..MaxLeads : SentTo(sid, j)}

\* C40: for one lead cycle only one of the two continuations takes effect: no
\* orchestrator goes on with the reply of a lead it has skipped, and the index
\* of a session is advanced at most once per lead a message was sent to.
C40_AcceptXorSkip ==
    /\ \A a \in 1..Len(insts) : ~RepliesToSkipped(a)
    /\ \A sid \in 1..Len(sessions) :
          Writers(sid) # {}
             => sessions[sid].current_lead_index <= Cardinality(LeadsSent(sid))

====
